---- MODULE Spec2Model ----
(***************************************************************************)
(* Verification model of the voice-chat backend audio data plane:          *)
(*   audio/packet.rs, audio/buffer.rs, audio/router.rs,                    *)
(*   networking/udp.rs (UdpServer), audio/server.rs (AudioUdpServer),      *)
(*   audio/performance.rs (AudioThreadPool), services/*.                   *)
(* Several specifications share the variables of this module; each one     *)
(* drives one component and leaves the variables of the others unchanged.  *)
(***************************************************************************)
EXTENDS Integers, Sequences, FiniteSets, Bags, TLC

(***************************************************************************)
(* Bounds of the model (not program constants).                            *)
(***************************************************************************)
MaxCap == 4
MaxPush == 3
MaxTicks == 3

(***************************************************************************)
(* Program constants.                                                      *)
(***************************************************************************)
StaleUs == 100000
MaxDesyncUs == 50000
MaxLatencyUs == 500000
MinLatencyUs == 20000
TickUs == StaleUs \div 2
RouterBufferCapacity == 1024
RouterBufferLatencyMs == 48000

VARIABLES
    now,        \* SystemTime::now() in microseconds
    ab,         \* the AudioBuffer under test (SpecBuffer)
    nextId,     \* identity of the next packet instance pushed
    relCount,   \* ghost: how many release calls returned each packet instance
    gone,       \* ghost: packet instances removed by eviction or cleanup
    lateRel,    \* ghost: packet instances returned by a release after removal
    lastOp,     \* ghost: the operation that produced this state and its result
    cb,         \* the CircularBuffer under test (SpecCircular)
    cbPushed,   \* ghost: packets pushed into cb, in push order
    cbOnlyPush, \* ghost: no operation other than push was applied to cb
    cbHanded    \* ghost: number of packets handed out by pop and drain

VARIABLES
    user_buffers,     \* AudioRouter.user_buffers: (user, channel) -> AudioBuffer
    client_addresses, \* AudioRouter.client_addresses: user -> endpoint
    stats,            \* AudioRouter.stats: channel -> RoutingStats
    channel_configs,  \* AudioRouter.channel_configs: channel -> RoutingConfig
    channel_sync,     \* AudioRouter.channel_sync: channel -> last timestamp
    stats_guard,      \* channel whose stats entry a stuck caller keeps locked
    lastRoute,        \* ghost: the last routing call and what it returned
    routeCalls        \* ghost: number of routing calls made

VARIABLES
    users,            \* UserService.users: "live" ids; "new" not yet issued, "gone" removed
    channels,         \* ChannelService.channels: channel -> current_users
    current_channel,  \* User.current_channel of each user; NoChannel is None
    loopback_mode,    \* config.audio.loopback_mode
    ingress,          \* UdpServer receive task: where it is, what it still sends
    outq,             \* UdpServer mpsc send queue
    delivered,        \* endpoint -> packets handed to socket.send_to, in order
    owed,             \* ghost: endpoint -> Audio packets it is owed, in order
    recvCount,        \* ghost: datagrams received so far
    lastDatagram      \* ghost: the datagram UdpServer handled last

VARIABLES
    connections,      \* AudioUdpServer.connections: endpoint -> ClientConnection
    handlers,         \* spawned handle_packet tasks that have not finished
    mixq,             \* AudioThreadPool task queue (mpsc)
    workers,          \* AudioThreadPool workers: the task each one holds
    srvSent,          \* endpoint -> mixes handed to socket.send_to, in order
    srvCount          \* ghost: datagrams the AudioUdpServer received so far

VARIABLES
    ptasks,           \* AudioThreadPool task channel (mpsc, bounded)
    pworkers,         \* AudioThreadPool workers: position and task held
    pstats,           \* AudioThreadPool.stats (ThreadPoolStats)
    permits,          \* AudioThreadPool.semaphore: free permits
    pshut,            \* shutdown(): "running", "signalled" or "returned"
    psink,            \* task id -> what its oneshot response channel received
    pnext,            \* ghost: number of submit_mix_task calls made
    plast             \* ghost: the last pool operation and what it observed

VARIABLES
    mixer,            \* the AudioMixer
    lastMix           \* ghost: the last mix_packets_advanced call and its result

VARIABLES
    sleep_start       \* AudioUdpServer::start: when the select's sleep was created

VARIABLES
    cpacket,          \* the AudioPacket a constructor returned
    cwire,            \* a byte string: what to_bytes returned, or a datagram
    cdecoded          \* what from_bytes returned for the bytes of cwire

VARIABLES
    next_sequence,    \* SequenceManager: the next sequence number, a u32
    lastSeq           \* ghost: the last SequenceManager call and its outcome

VARIABLES
    pwait             \* task id -> where its submit_priority_mix caller is

bufVars == <<ab, nextId, relCount, gone, lateRel, lastOp>>
cbVars == <<cb, cbPushed, cbOnlyPush, cbHanded>>
routerVars == <<user_buffers, client_addresses, stats, channel_configs,
                channel_sync, stats_guard, lastRoute, routeCalls>>
dirVars == <<users, channels, current_channel>>
udpVars == <<loopback_mode, ingress, outq, delivered, owed, recvCount, lastDatagram>>
srvVars == <<connections, handlers, mixq, workers, srvSent, srvCount>>
poolVars == <<ptasks, pworkers, pstats, permits, pshut, psink, pnext, plast>>
mixVars == <<mixer, lastMix>>
cleanupVars == <<sleep_start>>
codecVars == <<cpacket, cwire, cdecoded>>
seqVars == <<next_sequence, lastSeq>>
callVars == <<pwait>>
extVars == <<poolVars, mixVars, cleanupVars, codecVars, seqVars, callVars>>
netVars == <<routerVars, dirVars, udpVars, srvVars, extVars>>
vars == <<now, bufVars, cbVars, netVars>>

(***************************************************************************)
(* Small arithmetic helpers.                                               *)
(***************************************************************************)
Min(a, b) == IF a <= b THEN a ELSE b
Max(a, b) == IF a >= b THEN a ELSE b
\* floor(x * m / d), the value of the u64 expression `x * m / d`, computed
\* without an intermediate product larger than d * m.
MulDiv(x, m, d) == (x \div d) * m + ((x % d) * m) \div d

(***************************************************************************)
(* audio/packet.rs                                                         *)
(***************************************************************************)
PacketType == {"Audio", "Silence", "AudioStart", "AudioStop", "Sync"}

NoUser == "none"

AudioPacket(id, ptype, user, channel, seq, ts) ==
    [id |-> id, packet_type |-> ptype, user_id |-> user, channel_id |-> channel,
     sequence |-> seq, timestamp |-> ts]

\* now.saturating_sub(self.timestamp)
age_micros(p, t) == IF t >= p.timestamp THEN t - p.timestamp ELSE 0

is_stale(p, t) == age_micros(p, t) > StaleUs

has_audio(p) == p.packet_type = "Audio"

is_control(p) == p.packet_type \in {"AudioStart", "AudioStop", "Sync"}

(***************************************************************************)
(* audio/buffer.rs: CircularBuffer                                         *)
(***************************************************************************)
CircularBuffer_new(capacity) ==
    [buffer |-> <<>>, capacity |-> capacity, total_packets |-> 0, dropped_packets |-> 0]

\* pop_front on a VecDeque: nothing happens when it is empty
pop_front(s) == IF s = <<>> THEN s ELSE Tail(s)

CircularBuffer_push(c, p) ==
    LET full == Len(c.buffer) >= c.capacity
        kept == IF full THEN pop_front(c.buffer) ELSE c.buffer
    IN  [c EXCEPT !.total_packets = @ + 1,
                  !.dropped_packets = IF full THEN @ + 1 ELSE @,
                  !.buffer = Append(kept, p)]

\* the packets a push evicts
CircularBuffer_evicted(c) ==
    IF Len(c.buffer) >= c.capacity /\ c.buffer # <<>> THEN {Head(c.buffer).id} ELSE {}

\* pop: the buffer afterwards and the Option returned (a sequence of length <= 1)
CircularBuffer_pop(c) ==
    [buf |-> [c EXCEPT !.buffer = pop_front(c.buffer)],
     out |-> IF c.buffer = <<>> THEN <<>> ELSE <<Head(c.buffer)>>]

\* mutant: drain hands out copies and leaves the packets resident
CircularBuffer_drain_keeps(c) ==
    [buf |-> c, out |-> c.buffer]

CircularBuffer_drain(c) ==
    [buf |-> [c EXCEPT !.buffer = <<>>], out |-> c.buffer]

CircularBuffer_len(c) == Len(c.buffer)

CircularBuffer_cleanup_stale(c, t) ==
    LET Fresh(p) == ~is_stale(p, t)
        kept == SelectSeq(c.buffer, Fresh)
    IN  [c EXCEPT !.buffer = kept,
                  !.dropped_packets = @ + (Len(c.buffer) - Len(kept))]

CircularBuffer_adjust_capacity(c, new_capacity) ==
    IF new_capacity = c.capacity THEN c
    ELSE LET excess == Max(Len(c.buffer) - new_capacity, 0)
         IN  [c EXCEPT !.capacity = new_capacity,
                       !.buffer = SubSeq(c.buffer, excess + 1, Len(c.buffer)),
                       !.dropped_packets = @ + excess]

(***************************************************************************)
(* audio/buffer.rs: AudioBuffer                                            *)
(***************************************************************************)
AudioBuffer_new(capacity, target_latency_ms) ==
    [audio_buffer |-> CircularBuffer_new(capacity),
     control_buffer |-> CircularBuffer_new(capacity \div 4),
     target_latency_us |-> target_latency_ms * 1000]

AudioBuffer_push(a, p) ==
    IF is_control(p)
    THEN [a EXCEPT !.control_buffer = CircularBuffer_push(@, p)]
    ELSE [a EXCEPT !.audio_buffer = CircularBuffer_push(@, p)]

\* the packet instance a push into the AudioBuffer evicts
AudioBuffer_evicted(a, p) ==
    IF is_control(p) THEN CircularBuffer_evicted(a.control_buffer)
    ELSE CircularBuffer_evicted(a.audio_buffer)

\* mutant: the age in microseconds compared with the target in milliseconds
latency_reached_ms(p, target, t) == age_micros(p, t) >= target \div 1000

\* `packet.header.age_micros() >= self.target_latency_us`
latency_reached(p, target, t) == age_micros(p, t) >= target

\* the `while let Some(packet) = front()` loop of get_ready_packets
RECURSIVE ready_loop(_, _, _, _)
ready_loop(c, target, t, acc) ==
    IF c.buffer # <<>> /\ latency_reached(Head(c.buffer), target, t)
    THEN LET r == CircularBuffer_pop(c)
         IN  ready_loop(r.buf, target, t, acc \o r.out)
    ELSE [buf |-> c, out |-> acc]

\* mutant: the audio packets are handed out before the control packets
get_ready_packets_audio_first(a, t) ==
    LET ctl == CircularBuffer_drain(a.control_buffer)
        aud == ready_loop(a.audio_buffer, a.target_latency_us, t, <<>>)
    IN  [buf |-> [a EXCEPT !.control_buffer = ctl.buf, !.audio_buffer = aud.buf],
         out |-> aud.out \o ctl.out]

AudioBuffer_get_ready_packets(a, t) ==
    LET ctl == CircularBuffer_drain(a.control_buffer)
        aud == ready_loop(a.audio_buffer, a.target_latency_us, t, <<>>)
    IN  [buf |-> [a EXCEPT !.control_buffer = ctl.buf, !.audio_buffer = aud.buf],
         out |-> ctl.out \o aud.out]

AudioBuffer_cleanup(a, t) ==
    [a EXCEPT !.audio_buffer = CircularBuffer_cleanup_stale(@, t),
              !.control_buffer = CircularBuffer_cleanup_stale(@, t)]

AudioBuffer_adjust_latency(a, new_latency_ms) ==
    [a EXCEPT !.target_latency_us = new_latency_ms * 1000]

\* stats().drop_rate > 5.0 and < 1.0, with drop_rate = dropped / total * 100
\* (0 when nothing was pushed), compared without fractions
drop_rate_above_5(c) == c.total_packets > 0 /\ c.dropped_packets * 100 > 5 * c.total_packets
drop_rate_below_1(c) == c.total_packets = 0 \/ c.dropped_packets * 100 < c.total_packets

AudioBuffer_auto_adjust_latency(a) ==
    IF drop_rate_above_5(a.audio_buffer)
    THEN [a EXCEPT !.target_latency_us = Min(MulDiv(@, 110, 100), MaxLatencyUs)]
    ELSE IF drop_rate_below_1(a.audio_buffer)
            /\ Len(a.audio_buffer.buffer) < a.audio_buffer.capacity \div 2
         THEN [a EXCEPT !.target_latency_us = Max(MulDiv(@, 95, 100), MinLatencyUs)]
         ELSE a

\* channel_sync.get(&channel_id).copied().unwrap_or(0)
channel_latest(sync_map, channel) ==
    IF channel \in DOMAIN sync_map THEN sync_map[channel] ELSE 0

\* the release test of get_synchronized_packets
sync_reached(p, sync_map, target, t) ==
    \/ p.timestamp <= channel_latest(sync_map, p.channel_id) + MaxDesyncUs
    \/ age_micros(p, t) >= target

RECURSIVE sync_loop(_, _, _, _, _)
sync_loop(c, sync_map, target, t, acc) ==
    IF c.buffer # <<>> /\ sync_reached(Head(c.buffer), sync_map, target, t)
    THEN LET r == CircularBuffer_pop(c)
         IN  sync_loop(r.buf, sync_map, target, t, acc \o r.out)
    ELSE [buf |-> c, out |-> acc]

AudioBuffer_get_synchronized_packets(a, sync_map, t) ==
    LET ctl == CircularBuffer_drain(a.control_buffer)
        aud == sync_loop(a.audio_buffer, sync_map, a.target_latency_us, t, <<>>)
    IN  [buf |-> [a EXCEPT !.control_buffer = ctl.buf, !.audio_buffer = aud.buf],
         out |-> ctl.out \o aud.out]

(***************************************************************************)
(* Identities, endpoints and the state of the components at construction.  *)
(***************************************************************************)
Users == {"u1", "u2", "u3"}
Channels == {"c1", "c2"}
NoChannel == "none"
PlaybackPort == 8083
SrcPort == PlaybackPort + 1
Endpoint(ip, port) == [ip |-> ip, port |-> port]
Addrs == {Endpoint("h1", SrcPort), Endpoint("h2", SrcPort)}
Endpoints == Addrs \cup {Endpoint(a.ip, PlaybackPort) : a \in Addrs}

\* DashMap / HashMap values are functions; these are insert, remove, retain
EmptyMap == [k \in {} |-> 0]
Put(m, k, v) == [x \in DOMAIN m \cup {k} |-> IF x = k THEN v ELSE m[x]]
Remove(m, k) == [x \in DOMAIN m \ {k} |-> m[x]]
Retain(m, keep(_)) == [x \in {y \in DOMAIN m : keep(y)} |-> m[x]]

NoRoute == [op |-> "none", from_user |-> NoUser, channel_id |-> NoChannel,
            returned |-> FALSE, destinations |-> <<>>]

\* AudioRouter::new()
RouterIdle ==
    /\ user_buffers = EmptyMap
    /\ client_addresses = EmptyMap
    /\ stats = EmptyMap
    /\ channel_configs = EmptyMap
    /\ channel_sync = EmptyMap
    /\ stats_guard = NoChannel
    /\ lastRoute = NoRoute
    /\ routeCalls = 0

\* no user created, ChannelService not constructed
DirIdle ==
    /\ users = [u \in Users |-> "new"]
    /\ channels = EmptyMap
    /\ current_channel = [u \in Users |-> NoChannel]

IngressIdle == [pc |-> "recv", pending |-> <<>>]
NoDatagram == [packet_type |-> "none"]

UdpIdle ==
    /\ loopback_mode = FALSE
    /\ ingress = IngressIdle
    /\ outq = <<>>
    /\ delivered = [a \in Endpoints |-> <<>>]
    /\ owed = [a \in Endpoints |-> <<>>]
    /\ recvCount = 0
    /\ lastDatagram = NoDatagram

MaxWorkers == 2
NoTask == [id |-> 0]

\* AudioUdpServer::new with a fresh AudioThreadPool
SrvIdle ==
    /\ connections = EmptyMap
    /\ handlers = EmptyMap
    /\ mixq = <<>>
    /\ workers = [w \in 1..MaxWorkers |-> NoTask]
    /\ srvSent = [a \in Endpoints |-> <<>>]
    /\ srvCount = 0

MaxConcurrentMixes == 1
NoPoolOp == [op |-> "none"]
Spawned == [pc |-> "spawned", task |-> NoTask, picked |-> 0]

\* AudioThreadPool::new: the workers are spawned and have not run yet
PoolIdle ==
    /\ ptasks = <<>>
    /\ pworkers = [w \in 1..MaxWorkers |-> Spawned]
    /\ pstats = [active_workers |-> 0, queued_tasks |-> 0, completed_tasks |-> 0,
                 failed_tasks |-> 0, peak_queue_size |-> 0]
    /\ permits = MaxConcurrentMixes
    /\ pshut = "running"
    /\ psink = EmptyMap
    /\ pnext = 0
    /\ plast = NoPoolOp

NoMixCall == [op |-> "none"]

\* no mixer constructed
MixIdle ==
    /\ mixer = [channels |-> 0]
    /\ lastMix = NoMixCall

\* AudioUdpServer::start not called
CleanupIdle == sleep_start = 0

\* no packet built, nothing encoded, nothing decoded
NotBuilt == [built |-> FALSE]
NoWire == [kind |-> "none", bytes |-> <<>>]
NotDecoded == [called |-> FALSE]
CodecIdle == cpacket = NotBuilt /\ cwire = NoWire /\ cdecoded = NotDecoded

\* SequenceManager::new; a u32 is the pair of its 16-bit halves <<high, low>>
NoSeqCall == [op |-> "none"]
SeqIdle == next_sequence = <<0, 0>> /\ lastSeq = NoSeqCall

\* no call of submit_priority_mix
CallIdle == pwait = EmptyMap

ExtIdle == PoolIdle /\ MixIdle /\ CleanupIdle /\ CodecIdle /\ SeqIdle /\ CallIdle

NetIdle == RouterIdle /\ DirIdle /\ UdpIdle /\ SrvIdle /\ ExtIdle

(***************************************************************************)
(* Inputs of the buffer specifications.                                    *)
(***************************************************************************)
BufChannel == "c1"
BufUser == "u1"
Times == {k * TickUs : k \in 0..MaxTicks}
\* timestamps a sender stamps on a packet pushed at time t: the epoch, or t
PushTimes(t) == {0, t}
\* AudioBuffer::new arguments: small buffers, with control capacity 0 and 1
ConstructArgs ==
    {<<1, 50>>, <<MaxCap, 100>>}
\* channel_sync maps handed to get_synchronized_packets at time t
SyncMaps(t) == UNION {[D -> {0, t}] : D \in SUBSET {BufChannel}}
NoSync == [c \in {} |-> 0]

Range(s) == {s[i] : i \in 1..Len(s)}
Ids(s) == {s[i].id : i \in 1..Len(s)}
Resident(a) == Ids(a.audio_buffer.buffer) \cup Ids(a.control_buffer.buffer)

Op(name, out, sync) == [op |-> name, out |-> out, sync |-> sync]
OtherOp == Op("other", <<>>, NoSync)

(***************************************************************************)
(* SpecBuffer: one AudioBuffer driven by push, the two release operations  *)
(* and cleanup, while the clock advances.                                  *)
(***************************************************************************)
CbIdle ==
    /\ cb = CircularBuffer_new(0)
    /\ cbPushed = <<>>
    /\ cbOnlyPush = TRUE
    /\ cbHanded = 0

GhostInit ==
    /\ nextId = 1
    /\ relCount = [i \in 1..MaxPush |-> 0]
    /\ gone = {}
    /\ lateRel = {}
    /\ lastOp = OtherOp

InitBuffer ==
    /\ now = 0
    /\ \E args \in ConstructArgs : ab = AudioBuffer_new(args[1], args[2])
    /\ GhostInit
    /\ CbIdle
    /\ NetIdle

Tick ==
    /\ now < MaxTicks * TickUs
    /\ now' = now + TickUs
    /\ lastOp' = OtherOp
    /\ UNCHANGED <<ab, nextId, relCount, gone, lateRel, cbVars, netVars>>

BufPush ==
    /\ nextId <= MaxPush
    /\ \E ptype \in PacketType, ts \in PushTimes(now) :
          LET p == AudioPacket(nextId, ptype, BufUser, BufChannel, nextId, ts)
          IN  /\ ab' = AudioBuffer_push(ab, p)
              /\ gone' = gone \cup AudioBuffer_evicted(ab, p)
    /\ nextId' = nextId + 1
    /\ lastOp' = OtherOp
    /\ UNCHANGED <<now, relCount, lateRel, cbVars, netVars>>

\* ghost bookkeeping of a release call returning r.out
Release(r, name, sync) ==
    /\ ab' = r.buf
    /\ relCount' = [i \in 1..MaxPush |->
                      relCount[i] + Cardinality({k \in 1..Len(r.out) : r.out[k].id = i})]
    /\ lateRel' = lateRel \cup (Ids(r.out) \cap gone)
    /\ lastOp' = Op(name, r.out, sync)
    /\ UNCHANGED <<now, nextId, gone, cbVars, netVars>>

BufGetReady ==
    Release(AudioBuffer_get_ready_packets(ab, now), "get_ready_packets", NoSync)

BufGetSynchronized ==
    \E sync \in SyncMaps(now) :
        Release(AudioBuffer_get_synchronized_packets(ab, sync, now),
                "get_synchronized_packets", sync)

BufCleanup ==
    /\ ab' = AudioBuffer_cleanup(ab, now)
    /\ gone' = gone \cup (Resident(ab) \ Resident(ab'))
    /\ lastOp' = OtherOp
    /\ UNCHANGED <<now, nextId, relCount, lateRel, cbVars, netVars>>

NextBuffer ==
    \/ Tick
    \/ BufPush
    \/ BufGetReady
    \/ BufGetSynchronized
    \/ BufCleanup

SpecBuffer == InitBuffer /\ [][NextBuffer]_vars

(***************************************************************************)
(* C4: across any interleaving of push, the release operations and         *)
(* cleanup, no packet instance is returned by more than one release call,  *)
(* and none is returned after overflow eviction or cleanup removed it.     *)
(***************************************************************************)
NoReRelease ==
    /\ \A i \in 1..MaxPush : relCount[i] <= 1
    /\ lateRel = {}

\* a release returned a packet after another packet had been evicted or cleaned up
NoReReleaseWitness ==
    /\ lastOp.op \in {"get_ready_packets", "get_synchronized_packets"}
    /\ lastOp.out # <<>>
    /\ gone # {}
    /\ \E i \in 1..MaxPush : relCount[i] = 1

(***************************************************************************)
(* C5 as claimed: every non-control packet returned by get_ready_packets   *)
(* or get_synchronized_packets has age >= target_latency_us at release.    *)
(***************************************************************************)
LatencyBoundAllReleases ==
    lastOp.op \in {"get_ready_packets", "get_synchronized_packets"} =>
        \A k \in 1..Len(lastOp.out) :
            is_control(lastOp.out[k]) \/ age_micros(lastOp.out[k], now) >= ab.target_latency_us

(***************************************************************************)
(* C5 as amended: a non-control packet returned by get_ready_packets has   *)
(* age >= target_latency_us; one returned by get_synchronized_packets has  *)
(* age >= target_latency_us or a timestamp at most 50 ms ahead of its      *)
(* channel's entry in channel_sync (0 when the channel has none).          *)
(***************************************************************************)
LatencyBound ==
    /\ lastOp.op = "get_ready_packets" =>
          \A k \in 1..Len(lastOp.out) :
              is_control(lastOp.out[k]) \/ age_micros(lastOp.out[k], now) >= ab.target_latency_us
    /\ lastOp.op = "get_synchronized_packets" =>
          \A k \in 1..Len(lastOp.out) :
              \/ is_control(lastOp.out[k])
              \/ age_micros(lastOp.out[k], now) >= ab.target_latency_us
              \/ lastOp.out[k].timestamp
                    <= channel_latest(lastOp.sync, lastOp.out[k].channel_id) + MaxDesyncUs

\* get_ready_packets released an audio packet from a buffer with a positive
\* target while a younger packet stayed resident
LatencyBoundWitness ==
    /\ lastOp.op = "get_ready_packets"
    /\ ab.target_latency_us > 0
    /\ \E k \in 1..Len(lastOp.out) : ~is_control(lastOp.out[k])
    /\ ab.audio_buffer.buffer # <<>>

(***************************************************************************)
(* SpecCircular: one CircularBuffer driven by all of its operations.       *)
(***************************************************************************)
InitCircular ==
    /\ now = 0
    /\ \E c \in 0..MaxCap :
          \/ cb = CircularBuffer_new(c)
          \/ cb = AudioBuffer_new(c, 50).control_buffer
    /\ cbPushed = <<>>
    /\ cbOnlyPush = TRUE
    /\ cbHanded = 0
    /\ ab = AudioBuffer_new(0, 0)
    /\ GhostInit
    /\ NetIdle

CbTick ==
    /\ now < MaxTicks * TickUs
    /\ now' = now + TickUs
    /\ UNCHANGED <<bufVars, cbVars, netVars>>

CbPush ==
    /\ Len(cbPushed) < MaxPush
    /\ \E ts \in PushTimes(now) :
          LET n == Len(cbPushed) + 1
              p == AudioPacket(n, "Audio", BufUser, BufChannel, n, ts)
          IN  /\ cb' = CircularBuffer_push(cb, p)
              /\ cbPushed' = Append(cbPushed, p)
    /\ UNCHANGED <<now, bufVars, cbOnlyPush, cbHanded, netVars>>

CbPop ==
    /\ LET r == CircularBuffer_pop(cb)
       IN  /\ cb' = r.buf
           /\ cbHanded' = cbHanded + Len(r.out)
    /\ cbOnlyPush' = FALSE
    /\ UNCHANGED <<now, bufVars, cbPushed, netVars>>

CbDrain ==
    /\ LET r == CircularBuffer_drain(cb)
       IN  /\ cb' = r.buf
           /\ cbHanded' = cbHanded + Len(r.out)
    /\ cbOnlyPush' = FALSE
    /\ UNCHANGED <<now, bufVars, cbPushed, netVars>>

CbCleanupStale ==
    /\ cb' = CircularBuffer_cleanup_stale(cb, now)
    /\ cbOnlyPush' = FALSE
    /\ UNCHANGED <<now, bufVars, cbPushed, cbHanded, netVars>>

CbAdjustCapacity ==
    /\ \E n \in 0..MaxCap : cb' = CircularBuffer_adjust_capacity(cb, n)
    /\ cbOnlyPush' = FALSE
    /\ UNCHANGED <<now, bufVars, cbPushed, cbHanded, netVars>>

NextCircular ==
    \/ CbTick
    \/ CbPush
    \/ CbPop
    \/ CbDrain
    \/ CbCleanupStale
    \/ CbAdjustCapacity

SpecCircular == InitCircular /\ [][NextCircular]_vars

(***************************************************************************)
(* C6: for a fresh CircularBuffer of capacity c, after N > c pushes with   *)
(* strictly increasing sequence and no other operation, the resident       *)
(* packets are the last c pushed, in push order, and dropped_packets is    *)
(* N - c.                                                                  *)
(***************************************************************************)
FifoUnderOverflow ==
    LET N == Len(cbPushed)
        c == cb.capacity
    IN  (cbOnlyPush /\ N > c) =>
            /\ cb.buffer = SubSeq(cbPushed, N - c + 1, N)
            /\ cb.dropped_packets = N - c

(***************************************************************************)
(* C7: after any sequence of push, pop, drain, cleanup_stale and           *)
(* adjust_capacity on a CircularBuffer of any capacity, len() <= capacity. *)
(***************************************************************************)
LenWithinCapacity == CircularBuffer_len(cb) <= cb.capacity

(***************************************************************************)
(* SpecLatency: the target latency of an AudioBuffer under adjust_latency  *)
(* and auto_adjust_latency, while audio packets are pushed and released.   *)
(***************************************************************************)
LatencyMs == {0, 20, 500, 600}
LatencyConstructArgs ==
    {<<1, 50>>, <<MaxCap, 50>>, <<RouterBufferCapacity, RouterBufferLatencyMs>>}

InitLatency ==
    /\ now = 0
    /\ \E args \in LatencyConstructArgs : ab = AudioBuffer_new(args[1], args[2])
    /\ GhostInit
    /\ CbIdle
    /\ NetIdle

LatPush ==
    /\ nextId <= MaxPush
    /\ ab' = AudioBuffer_push(ab, AudioPacket(nextId, "Audio", BufUser, BufChannel, nextId, now))
    /\ nextId' = nextId + 1
    /\ lastOp' = OtherOp
    /\ UNCHANGED <<now, relCount, gone, lateRel, cbVars, netVars>>

LatGetReady ==
    /\ ab' = AudioBuffer_get_ready_packets(ab, now).buf
    /\ lastOp' = OtherOp
    /\ UNCHANGED <<now, nextId, relCount, gone, lateRel, cbVars, netVars>>

LatAdjustLatency ==
    /\ \E ms \in LatencyMs : ab' = AudioBuffer_adjust_latency(ab, ms)
    /\ lastOp' = Op("adjust_latency", <<>>, NoSync)
    /\ UNCHANGED <<now, nextId, relCount, gone, lateRel, cbVars, netVars>>

LatAutoAdjust ==
    /\ ab' = AudioBuffer_auto_adjust_latency(ab)
    /\ lastOp' = Op("auto_adjust_latency", <<>>, NoSync)
    /\ UNCHANGED <<now, nextId, relCount, gone, lateRel, cbVars, netVars>>

NextLatency ==
    \/ Tick
    \/ LatPush
    \/ LatGetReady
    \/ LatAdjustLatency
    \/ LatAutoAdjust

SpecLatency == InitLatency /\ [][NextLatency]_vars

(***************************************************************************)
(* C8: after every call to auto_adjust_latency, target_latency_us lies in  *)
(* [20_000, 500_000], whatever the target was before the call.             *)
(***************************************************************************)
AutoAdjustWithinRange ==
    lastOp.op = "auto_adjust_latency" =>
        /\ ab.target_latency_us >= MinLatencyUs
        /\ ab.target_latency_us <= MaxLatencyUs

(***************************************************************************)
(* audio/router.rs: AudioRouter.  The router value is the record of its    *)
(* five maps; an operation maps a router to a router (and a result).       *)
(***************************************************************************)
MaxConnected == 3
MaxRoutes == 1

QualityMode == {"Low", "Medium", "High", "Adaptive"}

Router ==
    [user_buffers |-> user_buffers, client_addresses |-> client_addresses,
     stats |-> stats, channel_configs |-> channel_configs,
     channel_sync |-> channel_sync]

SetRouter(r) ==
    /\ user_buffers' = r.user_buffers
    /\ client_addresses' = r.client_addresses
    /\ stats' = r.stats
    /\ channel_configs' = r.channel_configs
    /\ channel_sync' = r.channel_sync

\* the RoutingStats value add_user_to_channel inserts; packet_loss_rate is
\* the fraction loss_num / loss_den (0.0 at construction)
NewRoutingStats ==
    [packets_received |-> 0, packets_routed |-> 0, connected_users |-> 0,
     loss_num |-> 0, loss_den |-> 1, jitter_ms |-> 0]

register_client(r, user_id, address) ==
    [r EXCEPT !.client_addresses = Put(@, user_id, address)]

unregister_client(r, user_id) ==
    [r EXCEPT !.client_addresses = Remove(@, user_id),
              !.user_buffers = Retain(@, LAMBDA k : k[1] # user_id)]

\* lines 97-100: the buffer is inserted before the stats entry is touched
add_user_buffer(r, user_id, channel_id) ==
    IF <<user_id, channel_id>> \in DOMAIN r.user_buffers
    THEN r
    ELSE [r EXCEPT !.user_buffers =
              Put(@, <<user_id, channel_id>>,
                  AudioBuffer_new(RouterBufferCapacity, RouterBufferLatencyMs))]

add_user_to_channel(r, user_id, channel_id) ==
    LET r1 == add_user_buffer(r, user_id, channel_id)
        st == IF channel_id \in DOMAIN r1.stats THEN r1.stats[channel_id]
                                                ELSE NewRoutingStats
    IN  [r1 EXCEPT !.stats =
             Put(@, channel_id, [st EXCEPT !.connected_users = @ + 1])]

remove_user_buffer(r, user_id, channel_id) ==
    [r EXCEPT !.user_buffers = Remove(@, <<user_id, channel_id>>)]

remove_user_from_channel(r, user_id, channel_id) ==
    LET r1 == remove_user_buffer(r, user_id, channel_id)
    IN  IF channel_id \in DOMAIN r1.stats /\ r1.stats[channel_id].connected_users > 0
        THEN [r1 EXCEPT !.stats[channel_id].connected_users = @ - 1]
        ELSE r1

cleanup_channel_buffers(r, channel_id) ==
    [r EXCEPT !.user_buffers = Retain(@, LAMBDA k : k[2] # channel_id)]

cleanup_channel(r, channel_id) ==
    [cleanup_channel_buffers(r, channel_id) EXCEPT !.stats = Remove(@, channel_id)]

configure_channel(r, channel_id, mode) ==
    [r EXCEPT !.channel_configs = Put(@, channel_id, [quality_mode |-> mode])]

\* the users whose (user, channel) key passes the test of the routing loops:
\* *ch_id == channel_id && *user_id != from_user
recipients_with_sender(r, from_user, channel_id) ==
    {u \in Users : <<u, channel_id>> \in DOMAIN r.user_buffers}

recipients(r, from_user, channel_id) ==
    {u \in Users : <<u, channel_id>> \in DOMAIN r.user_buffers /\ u # from_user}

\* the orders in which a DashMap iteration can visit the keys of S
Orders(S) ==
    {o \in [1..Cardinality(S) -> S] : \A i, j \in DOMAIN o : o[i] = o[j] => i = j}

RECURSIVE lookup(_, _)
\* destinations.push(addr) for every visited user that has an address
lookup(order, addresses) ==
    IF order = <<>> THEN <<>>
    ELSE (IF Head(order) \in DOMAIN addresses
          THEN <<addresses[Head(order)]>> ELSE <<>>)
         \o lookup(Tail(order), addresses)

\* lines 151-160 and update_routing_stats
update_routing_stats(r, channel_id, received, routed) ==
    IF channel_id \in DOMAIN r.stats
    THEN LET st == r.stats[channel_id]
             rc == st.packets_received + received
             rt == st.packets_routed + routed
         IN  [r EXCEPT !.stats[channel_id] =
                 [st EXCEPT !.packets_received = rc, !.packets_routed = rt,
                            !.loss_num = IF rc > 0 THEN rc - rt ELSE @,
                            !.loss_den = IF rc > 0 THEN rc ELSE @]]
    ELSE r

Routed(r, name, dests) ==
    [router |-> r, op |-> name, returned |-> TRUE, destinations |-> dests]

\* the caller never returns: it waits for the write lock of the stats entry
\* it holds a read guard on
Stuck(r, name) ==
    [router |-> r, op |-> name, returned |-> FALSE, destinations |-> <<>>]

\* packets_routed counts every visited recipient, with or without an address
route_packet(r, from_user, channel_id, order) ==
    Routed(update_routing_stats(r, channel_id, 1, Len(order)), "route_packet",
           lookup(order, r.client_addresses))

\* packets_routed counts destinations.len()
route_low_quality(r, from_user, channel_id, order) ==
    LET dests == lookup(order, r.client_addresses)
    IN  Routed(update_routing_stats(r, channel_id, 1, Len(dests)),
               "route_low_quality", dests)

route_high_quality(r, from_user, channel_id, order) ==
    [route_packet(r, from_user, channel_id, order) EXCEPT !.op = "route_high_quality"]

\* The guard returned by self.stats.get() lives through the three branches;
\* each of them ends in self.stats.get_mut() on the same key.
route_adaptive(r, from_user, channel_id, order) ==
    IF channel_id \in DOMAIN r.stats
    THEN LET st == r.stats[channel_id]
         IN  IF st.loss_num > 5 * st.loss_den \/ st.jitter_ms > 100
             THEN Stuck(r, "route_low_quality")
             ELSE IF st.loss_num < st.loss_den /\ st.jitter_ms < 20
                  THEN Stuck(r, "route_high_quality")
                  ELSE Stuck(r, "route_packet")
    ELSE [route_packet(r, from_user, channel_id, order) EXCEPT !.op = "route_adaptive"]

quality_mode(r, channel_id) ==
    IF channel_id \in DOMAIN r.channel_configs
    THEN r.channel_configs[channel_id].quality_mode
    ELSE "Medium"

intelligent_route(r, packet, from_user, channel_id, order) ==
    LET mode == quality_mode(r, channel_id)
        r1 == [r EXCEPT !.channel_sync = Put(@, channel_id, packet.timestamp)]
    IN  CASE mode = "Low" -> route_low_quality(r1, from_user, channel_id, order)
          [] mode = "High" -> route_high_quality(r1, from_user, channel_id, order)
          [] mode = "Adaptive" -> route_adaptive(r1, from_user, channel_id, order)
          [] OTHER -> route_packet(r1, from_user, channel_id, order)

\* route_to_channel: route_packet with the identities of the packet header
route_to_channel(r, packet, order) ==
    route_packet(r, packet.user_id, packet.channel_id, order)

(***************************************************************************)
(* SpecRouter: one AudioRouter driven through its public operations.       *)
(***************************************************************************)
\* (user, endpoint) pairs handed to register_client: u1 and u2 can register
\* the same endpoint, u3 never registers one
RegisterInputs ==
    {<<"u1", Endpoint("h1", SrcPort)>>, <<"u2", Endpoint("h1", SrcPort)>>,
     <<"u2", Endpoint("h2", SrcPort)>>}
\* (user, channel) pairs handed to add_user_to_channel and
\* remove_user_from_channel: c1 is the channel users join, c2 stays empty
MemberInputs == Users \X {"c1"}
\* (channel, quality mode) pairs handed to configure_channel
ConfigInputs == {"c1"} \X QualityMode

InitRouter ==
    /\ now = 0
    /\ ab = AudioBuffer_new(0, 0)
    /\ GhostInit
    /\ CbIdle
    /\ NetIdle

RouterRest == <<now, bufVars, cbVars, dirVars, udpVars, srvVars, extVars>>

\* a call that is not a routing call
RouterCall(r) ==
    /\ SetRouter(r)
    /\ lastRoute' = NoRoute
    /\ UNCHANGED <<stats_guard, routeCalls, RouterRest>>

RtRegisterClient ==
    \E in \in RegisterInputs : RouterCall(register_client(Router, in[1], in[2]))

RtUnregisterClient ==
    \E u \in Users :
        /\ u \in DOMAIN client_addresses \/ \E c \in Channels : <<u, c>> \in DOMAIN user_buffers
        /\ RouterCall(unregister_client(Router, u))

\* A call that needs the stats entry of the channel a stuck caller keeps
\* locked does what precedes that access and never returns.
RtAddUserToChannel ==
    \E in \in MemberInputs :
        /\ in[2] \in DOMAIN stats => stats[in[2]].connected_users < MaxConnected
        /\ IF stats_guard = in[2]
           THEN RouterCall(add_user_buffer(Router, in[1], in[2]))
           ELSE RouterCall(add_user_to_channel(Router, in[1], in[2]))

RtRemoveUserFromChannel ==
    \E in \in MemberInputs :
        /\ in[2] \in DOMAIN stats
        /\ IF stats_guard = in[2]
           THEN RouterCall(remove_user_buffer(Router, in[1], in[2]))
           ELSE RouterCall(remove_user_from_channel(Router, in[1], in[2]))

RtCleanupChannel ==
    \E c \in Channels :
        /\ c \in DOMAIN stats
        /\ IF stats_guard = c
           THEN RouterCall(cleanup_channel_buffers(Router, c))
           ELSE RouterCall(cleanup_channel(Router, c))

RtConfigureChannel ==
    \E in \in ConfigInputs : RouterCall(configure_channel(Router, in[1], in[2]))

\* a routing call and what it returned
RouteCall(res, from_user, channel_id) ==
    /\ routeCalls < MaxRoutes
    /\ routeCalls' = routeCalls + 1
    /\ SetRouter(res.router)
    /\ lastRoute' = [op |-> res.op, from_user |-> from_user, channel_id |-> channel_id,
                     returned |-> res.returned, destinations |-> res.destinations]
    /\ stats_guard' = IF res.returned THEN stats_guard ELSE channel_id
    /\ UNCHANGED RouterRest

RtIntelligentRoute ==
    \E from_user \in Users, c \in Channels :
        \E order \in Orders(recipients(Router, from_user, c)) :
            LET p == AudioPacket(0, "Audio", from_user, c, 0, now)
            IN  /\ stats_guard # c
                /\ RouteCall(intelligent_route(Router, p, from_user, c, order), from_user, c)

RtRouteToChannel ==
    \E from_user \in Users, c \in Channels :
        \E order \in Orders(recipients(Router, from_user, c)) :
            LET p == AudioPacket(0, "Audio", from_user, c, 0, now)
            IN  /\ stats_guard # c
                /\ RouteCall(route_to_channel(Router, p, order), from_user, c)

NextRouter ==
    \/ RtRegisterClient
    \/ RtUnregisterClient
    \/ RtAddUserToChannel
    \/ RtRemoveUserFromChannel
    \/ RtCleanupChannel
    \/ RtConfigureChannel
    \/ RtIntelligentRoute
    \/ RtRouteToChannel

SpecRouter == InitRouter /\ [][NextRouter]_vars

\* number of positions of the sequence s that hold x
Count(s, x) == Cardinality({k \in 1..Len(s) : s[k] = x})

\* the members of the routed channel, other than the sender, registered at a
RegisteredAt(a) ==
    {u \in Users : /\ u # lastRoute.from_user
                   /\ <<u, lastRoute.channel_id>> \in DOMAIN user_buffers
                   /\ u \in DOMAIN client_addresses
                   /\ client_addresses[u] = a}

(***************************************************************************)
(* C1 as claimed: the list a routing operation returns holds one entry per *)
(* member of the channel, other than the sender, that has a registered     *)
(* endpoint, namely that endpoint, and nothing else; and the sender's own  *)
(* registered endpoint is not in the list.                                 *)
(***************************************************************************)
RecipientsExactAndNeverSenderEndpoint ==
    lastRoute.returned =>
        /\ \A a \in Endpoints : Count(lastRoute.destinations, a) = Cardinality(RegisteredAt(a))
        /\ \A k \in 1..Len(lastRoute.destinations) : lastRoute.destinations[k] \in Endpoints
        /\ lastRoute.from_user \in DOMAIN client_addresses =>
              Count(lastRoute.destinations, client_addresses[lastRoute.from_user]) = 0

(***************************************************************************)
(* C1 amended: the list a routing operation returns holds one entry per    *)
(* member of the channel, other than the sender, that has a registered     *)
(* endpoint, namely that endpoint, and nothing else.  The sender is never  *)
(* a recipient; its endpoint is in the list exactly as often as other      *)
(* members of the channel are registered at that same endpoint.            *)
(***************************************************************************)
RecipientsExact ==
    lastRoute.returned =>
        /\ \A a \in Endpoints : Count(lastRoute.destinations, a) = Cardinality(RegisteredAt(a))
        /\ \A k \in 1..Len(lastRoute.destinations) : lastRoute.destinations[k] \in Endpoints

\* route_low_quality returned a list for a sender that is a registered
\* member, with one other member delivered to and one skipped
RecipientsExactWitness ==
    /\ lastRoute.returned
    /\ lastRoute.op = "route_low_quality"
    /\ <<lastRoute.from_user, lastRoute.channel_id>> \in DOMAIN user_buffers
    /\ lastRoute.from_user \in DOMAIN client_addresses
    /\ Len(lastRoute.destinations) = 1
    /\ \E u \in Users \ {lastRoute.from_user} :
          /\ <<u, lastRoute.channel_id>> \in DOMAIN user_buffers
          /\ u \notin DOMAIN client_addresses

(***************************************************************************)
(* services/user_service.rs, services/channel_service.rs, models/channel.rs *)
(***************************************************************************)
MaxUsersPerChannel == 10
DefaultChannel == "c1"

get_user_ok(us, user_id) == us[user_id] = "live"

\* Channel as create_default_channel builds it (no password)
NewChannel == [current_users |-> <<>>, max_users |-> MaxUsersPerChannel]

contains(list, x) == \E i \in 1..Len(list) : list[i] = x

can_join(ch, user_id) ==
    \/ contains(ch.current_users, user_id)
    \/ Len(ch.current_users) < ch.max_users

add_user_ok(ch, user_id) ==
    ~contains(ch.current_users, user_id) /\ Len(ch.current_users) < ch.max_users

Channel_add_user(ch, user_id) ==
    IF add_user_ok(ch, user_id)
    THEN [ch EXCEPT !.current_users = Append(@, user_id)]
    ELSE ch

Channel_remove_user(ch, user_id) ==
    [ch EXCEPT !.current_users = SelectSeq(@, LAMBDA x : x # user_id)]

\* ChannelService::join_channel; an Err leaves the channels as they were
join_channel(chs, channel_id, user_id) ==
    IF channel_id \in DOMAIN chs /\ can_join(chs[channel_id], user_id)
    THEN [chs EXCEPT ![channel_id] = Channel_add_user(@, user_id)]
    ELSE chs

leave_channel(chs, channel_id, user_id) ==
    IF channel_id \in DOMAIN chs
    THEN [chs EXCEPT ![channel_id] = Channel_remove_user(@, user_id)]
    ELSE chs

remove_user_from_all_channels(chs, user_id) ==
    [c \in DOMAIN chs |-> Channel_remove_user(chs[c], user_id)]

\* Ok(users) of get_users_in_channel, or "Err"
get_users_in_channel_ok(chs, channel_id) == channel_id \in DOMAIN chs

(***************************************************************************)
(* networking/udp.rs: UdpServer.                                           *)
(***************************************************************************)
SendQueueCap == 2
MaxDatagrams == 3

\* the datagram passes the three checks of lines 157-174
datagram_accepted(us, chs, packet) ==
    /\ get_user_ok(us, packet.user_id)
    /\ get_users_in_channel_ok(chs, packet.channel_id)
    /\ contains(chs[packet.channel_id].current_users, packet.user_id)

\* one (packet, address) message per target
fan_out(packet, targets) == [k \in 1..Len(targets) |-> <<packet, targets[k]>>]

\* handle_received_packet up to its first sender.send: the router after the
\* call and the messages the handler then sends one after the other
handle_received_packet(r, us, chs, loopback, decodes, packet, from_addr, order) ==
    IF ~decodes \/ ~datagram_accepted(us, chs, packet)
    THEN [router |-> r, pending |-> <<>>]
    ELSE LET r1 == register_client(r, packet.user_id, from_addr)
             routed == route_to_channel(r1, packet, order)
             start == AudioPacket(packet.id, "AudioStart", packet.user_id,
                                  packet.channel_id, 0, packet.timestamp)
             stop == AudioPacket(packet.id, "AudioStop", packet.user_id,
                                 packet.channel_id, 0, packet.timestamp)
         IN  CASE packet.packet_type = "Audio" /\ loopback ->
                    [router |-> r1,
                     pending |-> <<<<packet, Endpoint(from_addr.ip, PlaybackPort)>>>>]
               [] packet.packet_type = "Audio" /\ ~loopback ->
                    [router |-> routed.router,
                     pending |-> fan_out(packet, routed.destinations)]
               [] packet.packet_type = "AudioStart" ->
                    [router |-> routed.router,
                     pending |-> fan_out(start, routed.destinations)]
               [] packet.packet_type = "AudioStop" ->
                    [router |-> routed.router,
                     pending |-> fan_out(stop, routed.destinations)]
               [] packet.packet_type = "Silence" ->
                    [router |-> r1, pending |-> <<>>]
               [] packet.packet_type = "Sync" ->
                    [router |-> r1, pending |-> <<<<packet, from_addr>>>>]

(***************************************************************************)
(* SpecUdp: the assembled server.  HTTP and WebSocket handlers drive the   *)
(* user and channel services; the UdpServer receive task handles one       *)
(* datagram at a time and queues messages for the send task.               *)
(***************************************************************************)
\* ids of the users that get created; u3 is an id no user ever has
UdpUsers == {"u1", "u2"}
\* (user, channel, type) headers of the datagrams clients send; c2 is a
\* channel that does not exist
DatagramInputs ==
    (UdpUsers \X {DefaultChannel} \X PacketType)
        \cup {<<"u3", DefaultChannel, "Audio">>, <<"u1", "c2", "Audio">>}

InitUdp ==
    /\ now = 0
    /\ ab = AudioBuffer_new(0, 0)
    /\ GhostInit
    /\ CbIdle
    /\ RouterIdle
    /\ users = [u \in Users |-> "new"]
    /\ channels = [c \in {DefaultChannel} |-> NewChannel]
    /\ current_channel = [u \in Users |-> NoChannel]
    /\ loopback_mode \in BOOLEAN
    /\ ingress = IngressIdle
    /\ outq = <<>>
    /\ delivered = [a \in Endpoints |-> <<>>]
    /\ owed = [a \in Endpoints |-> <<>>]
    /\ recvCount = 0
    /\ lastDatagram = NoDatagram
    /\ SrvIdle
    /\ ExtIdle

UdpRest == <<now, bufVars, cbVars, srvVars, extVars>>

\* ApiHandlers::create_user
UdpCreateUser ==
    \E u \in UdpUsers :
        /\ users[u] = "new"
        /\ users' = [users EXCEPT ![u] = "live"]
        /\ UNCHANGED <<channels, current_channel, routerVars, udpVars, UdpRest>>

\* ApiHandlers::disconnect_user: the user is removed, its memberships stay
UdpDisconnectUser ==
    \E u \in UdpUsers :
        /\ users[u] = "live"
        /\ users' = [users EXCEPT ![u] = "gone"]
        /\ UNCHANGED <<channels, current_channel, routerVars, udpVars, UdpRest>>

\* WebSocketHandler::handle_user_disconnect of a session authenticated as u
UdpWsDisconnect ==
    \E u \in UdpUsers :
        /\ users[u] = "live"
        /\ channels' = remove_user_from_all_channels(channels, u)
        /\ users' = [users EXCEPT ![u] = "gone"]
        /\ UNCHANGED <<current_channel, routerVars, udpVars, UdpRest>>

\* JoinChannel over the WebSocket and ApiHandlers::join_channel: both call
\* ChannelService::join_channel and nothing of the audio service
UdpJoinChannel ==
    \E u \in UdpUsers, c \in Channels :
        /\ users[u] # "new"
        /\ channels' = join_channel(channels, c, u)
        /\ channels' # channels
        /\ UNCHANGED <<users, current_channel, routerVars, udpVars, UdpRest>>

UdpLeaveChannel ==
    \E u \in UdpUsers, c \in Channels :
        /\ channels' = leave_channel(channels, c, u)
        /\ channels' # channels
        /\ UNCHANGED <<users, current_channel, routerVars, udpVars, UdpRest>>

\* ghost: the endpoints owed the Audio packet p of an accepted datagram:
\* those of the other members of its channel that have a registered
\* endpoint, the sender's own endpoint excepted
OwedEndpoints(r, chs, p) ==
    {r.client_addresses[u] :
        u \in {v \in DOMAIN r.client_addresses :
                  /\ v # p.user_id
                  /\ contains(chs[p.channel_id].current_users, v)}}
        \ {r.client_addresses[p.user_id]}

\* recv_from returned a datagram: handle_received_packet runs up to its
\* first sender.send
UdpHandle(record, bound) ==
    /\ ingress.pc = "recv"
    /\ recvCount < bound
    /\ \E from_addr \in Addrs, decodes \in BOOLEAN, in \in DatagramInputs :
          LET p == AudioPacket(recvCount + 1, in[3], in[1], in[2], recvCount + 1, now)
          IN  \E order \in Orders(recipients(Router, p.user_id, p.channel_id)) :
                LET h == handle_received_packet(Router, users, channels, loopback_mode,
                                                decodes, p, from_addr, order)
                    isOwed == /\ decodes
                              /\ datagram_accepted(users, channels, p)
                              /\ p.packet_type = "Audio"
                              /\ ~loopback_mode
                IN  /\ decodes \/ in = <<"u1", DefaultChannel, "Audio">>
                    /\ SetRouter(h.router)
                    /\ lastDatagram' = IF record
                                       THEN [packet_type |-> p.packet_type, packet |-> p,
                                             from_addr |-> from_addr,
                                             accepted |-> decodes /\
                                                 datagram_accepted(users, channels, p),
                                             pending |-> h.pending]
                                       ELSE lastDatagram
                    /\ ingress' = IF h.pending = <<>> THEN IngressIdle
                                  ELSE [pc |-> "send", pending |-> h.pending]
                    /\ owed' = IF isOwed
                               THEN [a \in Endpoints |->
                                       IF a \in OwedEndpoints(h.router, channels, p)
                                       THEN Append(owed[a], p.id) ELSE owed[a]]
                               ELSE owed
    /\ recvCount' = recvCount + 1
    /\ UNCHANGED <<stats_guard, lastRoute, routeCalls, dirVars, loopback_mode,
                   outq, delivered, UdpRest>>

UdpRecv == UdpHandle(FALSE, MaxDatagrams)

\* sender.send(..).await completes once the queue has room
UdpIngressSend ==
    /\ ingress.pc = "send"
    /\ Len(outq) < SendQueueCap
    /\ outq' = Append(outq, Head(ingress.pending))
    /\ ingress' = IF Tail(ingress.pending) = <<>> THEN IngressIdle
                  ELSE [ingress EXCEPT !.pending = Tail(@)]
    /\ UNCHANGED <<routerVars, dirVars, loopback_mode, delivered, owed, recvCount, lastDatagram,
                   UdpRest>>

\* the send task: rx.recv() then socket.send_to
UdpSendTask ==
    /\ outq # <<>>
    /\ delivered' = [delivered EXCEPT ![Head(outq)[2]] = Append(@, Head(outq)[1])]
    /\ outq' = Tail(outq)
    /\ UNCHANGED <<routerVars, dirVars, loopback_mode, ingress, owed, recvCount, lastDatagram,
                   UdpRest>>

NextUdp ==
    \/ UdpCreateUser
    \/ UdpDisconnectUser
    \/ UdpWsDisconnect
    \/ UdpJoinChannel
    \/ UdpLeaveChannel
    \/ UdpRecv
    \/ UdpIngressSend
    \/ UdpSendTask

SpecUdp == InitUdp /\ [][NextUdp]_vars

\* ids of the Audio packets of a sequence of packets, in order
RECURSIVE AudioIds(_)
AudioIds(s) ==
    IF s = <<>> THEN <<>>
    ELSE (IF Head(s).packet_type = "Audio" THEN <<Head(s).id>> ELSE <<>>)
         \o AudioIds(Tail(s))

(***************************************************************************)
(* C2: once the receive task is idle and the send queue is empty, every    *)
(* endpoint has been sent exactly the Audio packets it is owed, each once  *)
(* and in the order received: those that the other members of the channel  *)
(* sent after this endpoint's user had joined and sent a valid datagram.   *)
(***************************************************************************)
AudioDeliveredOnceInOrder ==
    (ingress.pc = "recv" /\ outq = <<>> /\ ~loopback_mode) =>
        \A a \in Endpoints : AudioIds(delivered[a]) = owed[a]

(***************************************************************************)
(* C10: the receive task never waits for the send task: it is never at a   *)
(* sender.send while the send queue is full.                               *)
(***************************************************************************)
IngressNeverWaits ==
    ~(ingress.pc = "send" /\ Len(outq) >= SendQueueCap)

(***************************************************************************)
(* audio/performance.rs: AudioThreadPool; audio/server.rs: AudioUdpServer. *)
(***************************************************************************)
QueueSize == 2
MaxSrvDatagrams == 3
TaskDeadlineUs == 500000

\* a packet with a payload of n bytes
WithPayload(p, n) == p @@ [payload_len |-> n]

\* AudioMixer::mix_packets_advanced with default controls, for the one
\* packet handle_packet submits: None without a whole sample, else the mix
\* of that packet
NoMix == [some |-> FALSE, user_id |-> NoUser, id |-> 0]
mix_packets_advanced(packets) ==
    IF packets = <<>> \/ ~has_audio(packets[1]) \/ packets[1].payload_len \div 2 = 0
    THEN NoMix
    ELSE [some |-> TRUE, user_id |-> packets[1].user_id, id |-> packets[1].id]

\* submit_mix_task: try_send on the bounded queue
submit_ok(q) == Len(q) < QueueSize
submit_mix_task(q, id, channel_id, packets, priority, t) ==
    IF submit_ok(q)
    THEN Append(q, [id |-> id, channel_id |-> channel_id, packets |-> packets,
                    priority |-> priority, timestamp |-> t])
    ELSE q

\* process_task without its deadline check
process_task_no_deadline(task, t) == mix_packets_advanced(task.packets)

\* process_task: what the worker sends on the task's response channel
process_task(task, t) ==
    IF t - task.timestamp > TaskDeadlineUs THEN NoMix
    ELSE mix_packets_advanced(task.packets)

\* lines 194-210: connections.entry(addr).or_insert_with(..), then the counters
update_connection(conns, addr, packet, t) ==
    LET c == IF addr \in DOMAIN conns THEN conns[addr]
             ELSE [user_id |-> packet.user_id, channel_id |-> packet.channel_id,
                   last_packet_time |-> t, packets_received |-> 0, packets_sent |-> 0]
    IN  Put(conns, addr, [c EXCEPT !.last_packet_time = t, !.packets_received = @ + 1])

\* distribute_mixed_audio: the endpoints of the channel other than the sender's
mix_recipients(conns, channel_id, sender_addr) ==
    {a \in DOMAIN conns : conns[a].channel_id = channel_id /\ a # sender_addr}

(***************************************************************************)
(* SpecAudioServer: the AudioUdpServer receive loop spawns one task per    *)
(* datagram; the tasks, the pool workers and the distribution run          *)
(* concurrently.  The directory holds users u1 and u2, both members of the *)
(* default channel.                                                        *)
(***************************************************************************)
\* (endpoint, user, channel, type, payload bytes) of the datagrams received
SrvInputs ==
    {<<Endpoint("h1", SrcPort), "u1", DefaultChannel, "Audio", 2>>,
     <<Endpoint("h1", SrcPort), "u1", DefaultChannel, "Audio", 0>>,
     <<Endpoint("h2", SrcPort), "u2", DefaultChannel, "Silence", 0>>,
     <<Endpoint("h2", SrcPort), "u2", DefaultChannel, "Audio", 2>>,
     <<Endpoint("h2", SrcPort), "u3", DefaultChannel, "Audio", 2>>,
     <<Endpoint("h1", SrcPort), "u1", "c2", "Sync", 0>>}

InitAudioServer ==
    /\ now = 0
    /\ ab = AudioBuffer_new(0, 0)
    /\ GhostInit
    /\ CbIdle
    /\ RouterIdle
    /\ UdpIdle
    /\ users = [u \in Users |-> IF u \in UdpUsers THEN "live" ELSE "new"]
    /\ current_channel = [u \in Users |-> NoChannel]
    /\ channels = [c \in {DefaultChannel} |->
                      Channel_add_user(Channel_add_user(NewChannel, "u1"), "u2")]
    /\ SrvIdle
    /\ ExtIdle

SrvRest == <<now, bufVars, cbVars, routerVars, dirVars, udpVars, extVars>>

\* recv_from returned a datagram: tokio::spawn(handle_packet(..))
SrvRecv ==
    /\ srvCount < MaxSrvDatagrams
    /\ \E in \in SrvInputs, decodes \in BOOLEAN :
          LET id == srvCount + 1
              p == WithPayload(AudioPacket(id, in[4], in[2], in[3], id, now), in[5])
          IN  /\ decodes \/ in[4] = "Sync"
              /\ handlers' = Put(handlers, id,
                                 [pc |-> "start", decodes |-> decodes, packet |-> p,
                                  addr |-> in[1], result |-> NoMix])
    /\ srvCount' = srvCount + 1
    /\ UNCHANGED <<connections, mixq, workers, srvSent, SrvRest>>

\* handle_packet up to receiver.await
SrvHandle ==
    \E id \in DOMAIN handlers :
        LET h == handlers[id]
            submits == h.decodes /\ has_audio(h.packet) /\ submit_ok(mixq)
        IN  /\ h.pc = "start"
            /\ connections' = IF h.decodes
                              THEN update_connection(connections, h.addr, h.packet, now)
                              ELSE connections
            /\ mixq' = IF h.decodes /\ has_audio(h.packet)
                       THEN submit_mix_task(mixq, id, h.packet.channel_id, <<h.packet>>,
                                            "Normal", now)
                       ELSE mixq
            /\ handlers' = IF submits THEN [handlers EXCEPT ![id].pc = "await"]
                           ELSE Remove(handlers, id)
            /\ UNCHANGED <<workers, srvSent, srvCount, SrvRest>>

\* a worker takes the next task off the queue
SrvWorkerTake ==
    \E w \in DOMAIN workers :
        /\ workers[w] = NoTask
        /\ mixq # <<>>
        /\ workers' = [workers EXCEPT ![w] = Head(mixq)]
        /\ mixq' = Tail(mixq)
        /\ UNCHANGED <<connections, handlers, srvSent, srvCount, SrvRest>>

\* process_task: the result reaches the handler waiting for it
SrvWorkerProcess ==
    \E w \in DOMAIN workers :
        /\ workers[w] # NoTask
        /\ handlers' = [handlers EXCEPT ![workers[w].id].pc = "distribute",
                                        ![workers[w].id].result = process_task(workers[w], now)]
        /\ workers' = [workers EXCEPT ![w] = NoTask]
        /\ UNCHANGED <<connections, mixq, srvSent, srvCount, SrvRest>>

\* handle_packet after receiver.await: distribute_mixed_audio
SrvDistribute ==
    \E id \in DOMAIN handlers :
        LET h == handlers[id]
            to == IF h.result.some
                  THEN mix_recipients(connections, h.packet.channel_id, h.addr)
                  ELSE {}
        IN  /\ h.pc = "distribute"
            /\ srvSent' = [a \in Endpoints |->
                             IF a \in to THEN Append(srvSent[a], h.result) ELSE srvSent[a]]
            /\ connections' = [a \in DOMAIN connections |->
                                 IF a \in to
                                 THEN [connections[a] EXCEPT !.packets_sent = @ + 1]
                                 ELSE connections[a]]
            /\ handlers' = Remove(handlers, id)
            /\ UNCHANGED <<mixq, workers, srvCount, SrvRest>>

NextAudioServer ==
    \/ SrvRecv
    \/ SrvHandle
    \/ SrvWorkerTake
    \/ SrvWorkerProcess
    \/ SrvDistribute

SpecAudioServer == InitAudioServer /\ [][NextAudioServer]_vars

\* the tasks queued or held by a worker
PoolTasks == Range(mixq) \cup {workers[w] : w \in {v \in DOMAIN workers : workers[v] # NoTask}}

(***************************************************************************)
(* C3: a datagram whose user is unknown, whose channel is unknown or whose *)
(* user is not a member of the channel leaves no trace: every connection   *)
(* entry, every mix task and every mix sent comes from a datagram of a     *)
(* known user that is a member of the known channel it names.              *)
(***************************************************************************)
InvalidDatagramsDropped ==
    /\ \A a \in DOMAIN connections : datagram_accepted(users, channels, connections[a])
    /\ \A t \in PoolTasks : datagram_accepted(users, channels, t.packets[1])
    /\ \A a \in Endpoints : \A k \in 1..Len(srvSent[a]) :
          get_user_ok(users, srvSent[a][k].user_id)

(***************************************************************************)
(* C9: the mixes sent to one endpoint that derive from packets of one      *)
(* sender are sent in the order in which the server received the packets.  *)
(***************************************************************************)
SentInReceiveOrder ==
    \A a \in Endpoints : \A i, j \in 1..Len(srvSent[a]) :
        (i < j /\ srvSent[a][i].user_id = srvSent[a][j].user_id) =>
            srvSent[a][i].id < srvSent[a][j].id

(***************************************************************************)
(* SpecPool: one AudioThreadPool.  Callers submit mix tasks, each worker   *)
(* loops over select / semaphore.acquire / process_task, the clock         *)
(* advances, and shutdown() is called once.  The receiver mutex lets one   *)
(* worker at a time wait on the channel: whichever worker is in the select *)
(* may be the one that receives the next task.                             *)
(***************************************************************************)
MaxPoolTasks == 3
MaxPoolTicks == 2
PoolTickUs == TaskDeadlineUs

Pending == [received |-> FALSE, result |-> NoMix]
Received(r) == [received |-> TRUE, result |-> r]

\* submit_mix_task lines 247-273 without the failure count
submit_stats_uncounted(st, q) ==
    [st EXCEPT !.peak_queue_size = Max(@, st.queued_tasks + 1),
               !.queued_tasks = IF submit_ok(q) THEN @ + 1 ELSE @]

\* submit_mix_task lines 247-273: the counters around try_send
submit_stats(st, q) ==
    LET counted == [st EXCEPT !.queued_tasks = @ + 1,
                              !.peak_queue_size = Max(@, st.queued_tasks + 1)]
    IN  IF submit_ok(q) THEN counted
        ELSE [counted EXCEPT !.queued_tasks = Max(@ - 1, 0),
                             !.failed_tasks = @ + 1]

\* process_task lines 187-195 and 207-209: the counters
process_stats(st, task, t) ==
    IF t - task.timestamp > TaskDeadlineUs
    THEN [st EXCEPT !.failed_tasks = @ + 1]
    ELSE [st EXCEPT !.completed_tasks = @ + 1]

InitPool ==
    /\ now = 0
    /\ ab = AudioBuffer_new(0, 0)
    /\ GhostInit
    /\ CbIdle
    /\ NetIdle

PoolRest == <<bufVars, cbVars, routerVars, dirVars, udpVars, srvVars, mixVars, cleanupVars,
              codecVars, seqVars, callVars>>

\* the clock advances; only the age of a task that exists is observable
PoolTick ==
    /\ now < MaxPoolTicks * PoolTickUs
    /\ ptasks # <<>> \/ \E w \in DOMAIN pworkers : pworkers[w].task # NoTask
    /\ now' = now + PoolTickUs
    /\ plast' = NoPoolOp
    /\ UNCHANGED <<ptasks, pworkers, pstats, permits, pshut, psink, pnext, PoolRest>>

\* spawn_worker lines 132-135
PoolWorkerStart ==
    \E w \in DOMAIN pworkers :
        /\ pworkers[w].pc = "spawned"
        /\ pworkers' = [pworkers EXCEPT ![w].pc = "select"]
        /\ pstats' = [pstats EXCEPT !.active_workers = @ + 1]
        /\ plast' = NoPoolOp
        /\ UNCHANGED <<now, ptasks, permits, pshut, psink, pnext, PoolRest>>

\* submit_mix_task
PoolSubmit ==
    /\ pshut = "running"
    /\ pnext < MaxPoolTasks
    /\ LET id == pnext + 1
           p == WithPayload(AudioPacket(id, "Audio", "u1", DefaultChannel, id, now), 2)
       IN  /\ ptasks' = submit_mix_task(ptasks, id, DefaultChannel, <<p>>, "Normal", now)
           /\ psink' = IF submit_ok(ptasks) THEN Put(psink, id, Pending) ELSE psink
           /\ plast' = [op |-> "submit", id |-> id, ok |-> submit_ok(ptasks),
                        queue |-> ptasks, stats |-> pstats]
    /\ pstats' = submit_stats(pstats, ptasks)
    /\ pnext' = pnext + 1
    /\ UNCHANGED <<now, pworkers, permits, pshut, PoolRest>>

\* spawn_worker lines 138-151: receiver.recv() returned Some(task)
PoolTake ==
    \E w \in DOMAIN pworkers :
        /\ pworkers[w].pc = "select"
        /\ ptasks # <<>>
        /\ pworkers' = [pworkers EXCEPT ![w] = [pc |-> "acquire", task |-> Head(ptasks),
                                                picked |-> now]]
        /\ ptasks' = Tail(ptasks)
        /\ plast' = [op |-> "take", id |-> Head(ptasks).id, shut |-> pshut]
        /\ UNCHANGED <<now, pstats, permits, pshut, psink, pnext, PoolRest>>

\* spawn_worker line 165: semaphore.acquire()
PoolAcquire ==
    \E w \in DOMAIN pworkers :
        /\ pworkers[w].pc = "acquire"
        /\ permits > 0
        /\ permits' = permits - 1
        /\ pworkers' = [pworkers EXCEPT ![w].pc = "process"]
        /\ plast' = NoPoolOp
        /\ UNCHANGED <<now, ptasks, pstats, pshut, psink, pnext, PoolRest>>

\* spawn_worker line 166: process_task, then the permit is dropped
PoolProcess ==
    \E w \in DOMAIN pworkers :
        LET task == pworkers[w].task
        IN  /\ pworkers[w].pc = "process"
            /\ psink' = Put(psink, task.id, Received(process_task(task, now)))
            /\ pstats' = process_stats(pstats, task, now)
            /\ permits' = permits + 1
            /\ pworkers' = [pworkers EXCEPT ![w] = [pc |-> "select", task |-> NoTask,
                                                    picked |-> 0]]
            /\ plast' = [op |-> "process", id |-> task.id, task |-> task,
                         pick_age |-> pworkers[w].picked - task.timestamp,
                         start_age |-> now - task.timestamp, stats |-> pstats]
            /\ UNCHANGED <<now, ptasks, pshut, pnext, PoolRest>>

\* spawn_worker lines 146-157 and 169-172: the shutdown signal, or the closed
\* and empty channel, ends the loop
PoolWorkerExit ==
    \E w \in DOMAIN pworkers :
        /\ pworkers[w].pc = "select"
        /\ pshut # "running"
        /\ pworkers' = [pworkers EXCEPT ![w].pc = "exited"]
        /\ pstats' = [pstats EXCEPT !.active_workers = Max(@ - 1, 0)]
        /\ plast' = NoPoolOp
        /\ UNCHANGED <<now, ptasks, permits, pshut, psink, pnext, PoolRest>>

\* shutdown lines 360-365: the task sender is dropped, the signal is sent
PoolShutdown ==
    /\ pshut = "running"
    /\ pshut' = "signalled"
    /\ plast' = NoPoolOp
    /\ UNCHANGED <<now, ptasks, pworkers, pstats, permits, psink, pnext, PoolRest>>

\* shutdown lines 368-375: every worker handle has been awaited
PoolShutdownReturn ==
    /\ pshut = "signalled"
    /\ \A w \in DOMAIN pworkers : pworkers[w].pc = "exited"
    /\ pshut' = "returned"
    /\ plast' = NoPoolOp
    /\ UNCHANGED <<now, ptasks, pworkers, pstats, permits, psink, pnext, PoolRest>>

NextPool ==
    \/ PoolTick
    \/ PoolWorkerStart
    \/ PoolSubmit
    \/ PoolTake
    \/ PoolAcquire
    \/ PoolProcess
    \/ PoolWorkerExit
    \/ PoolShutdown
    \/ PoolShutdownReturn

SpecPool == InitPool /\ [][NextPool]_vars

(***************************************************************************)
(* C11: submit_mix_task on a queue that holds queue_size tasks returns the *)
(* error at once (the call is one step, whatever the workers do), adds     *)
(* exactly 1 to failed_tasks and leaves the queue and the response         *)
(* channels as they were.                                                  *)
(***************************************************************************)
SubmitOnFullQueueFails ==
    (plast.op = "submit" /\ Len(plast.queue) >= QueueSize) =>
        /\ ~plast.ok
        /\ ptasks = plast.queue
        /\ plast.id \notin DOMAIN psink
        /\ pstats.failed_tasks = plast.stats.failed_tasks + 1
        /\ pstats.completed_tasks = plast.stats.completed_tasks
        /\ pstats.queued_tasks = plast.stats.queued_tasks

SubmitOnFullQueueFailsWitness ==
    /\ plast.op = "submit"
    /\ Len(plast.queue) = QueueSize
    /\ \E w \in DOMAIN pworkers : pworkers[w].pc = "select"
    /\ pstats.failed_tasks = 1
    /\ Len(ptasks) = QueueSize

(***************************************************************************)
(* C12 as claimed: a task that a worker takes off the queue more than      *)
(* 500 ms after its enqueue time is dropped (None to its sink,             *)
(* failed_tasks + 1, completed_tasks unchanged); a task taken off the      *)
(* queue within 500 ms is mixed, the mix goes to its sink and              *)
(* completed_tasks grows by 1.                                             *)
(***************************************************************************)
DeadlineAtPickup ==
    plast.op = "process" =>
        IF plast.pick_age > TaskDeadlineUs
        THEN /\ psink[plast.id] = Received(NoMix)
             /\ pstats.failed_tasks = plast.stats.failed_tasks + 1
             /\ pstats.completed_tasks = plast.stats.completed_tasks
        ELSE /\ psink[plast.id] = Received(mix_packets_advanced(plast.task.packets))
             /\ pstats.completed_tasks = plast.stats.completed_tasks + 1
             /\ pstats.failed_tasks = plast.stats.failed_tasks

(***************************************************************************)
(* C12 amended: the age is the one process_task reads when it starts,      *)
(* after the worker obtained its semaphore permit.  Above 500 ms the task  *)
(* is dropped; at 500 ms or below it is mixed.  A task taken off the queue *)
(* more than 500 ms after its enqueue time is always dropped.              *)
(***************************************************************************)
DeadlineAtProcessStart ==
    plast.op = "process" =>
        /\ plast.pick_age <= plast.start_age
        /\ IF plast.start_age > TaskDeadlineUs
           THEN /\ psink[plast.id] = Received(NoMix)
                /\ pstats.failed_tasks = plast.stats.failed_tasks + 1
                /\ pstats.completed_tasks = plast.stats.completed_tasks
           ELSE /\ psink[plast.id] = Received(mix_packets_advanced(plast.task.packets))
                /\ pstats.completed_tasks = plast.stats.completed_tasks + 1
                /\ pstats.failed_tasks = plast.stats.failed_tasks

DeadlineAtProcessStartWitness ==
    /\ plast.op = "process"
    /\ plast.pick_age = TaskDeadlineUs
    /\ plast.start_age > TaskDeadlineUs
    /\ mix_packets_advanced(plast.task.packets).some
    /\ pstats.completed_tasks = 1
    /\ pstats.failed_tasks = 1

(***************************************************************************)
(* C13: after shutdown() was called no worker takes a further task off the *)
(* queue: a worker finishes at most the task it holds and exits.           *)
(***************************************************************************)
WorkersStopAtShutdown ==
    plast.op = "take" => plast.shut = "running"

(***************************************************************************)
(* audio/mixer.rs: AudioMixer.  An f32 value is kept as an integer number  *)
(* of hundredths; a product with a factor is truncated toward zero.  A     *)
(* volume and noise_suppression are percentages, a payload is the          *)
(* sequence of its 16-bit samples plus a flag for a trailing odd byte.     *)
(***************************************************************************)
I16_MAX == 32767
I16_MIN == -32768

Abs(x) == IF x < 0 THEN -x ELSE x
Sgn(x) == IF x < 0 THEN -1 ELSE IF x > 0 THEN 1 ELSE 0
Scaled(x, num, den) == Sgn(x) * MulDiv(Abs(x), num, den)
Zeros(n) == [i \in 1..n |-> 0]

\* UserAudioControls::default
DefaultUserAudioControls ==
    [volume |-> 100, muted |-> FALSE, solo |-> FALSE, pan |-> 0,
     high_pass_enabled |-> TRUE, noise_suppression |-> 30,
     echo_cancellation |-> TRUE, voice_activity_threshold |-> 10]

\* ChannelMixConfig::default
DefaultChannelMixConfig ==
    [master_volume |-> 100, auto_gain_control |-> TRUE,
     compression_enabled |-> TRUE, compression_ratio |-> 4,
     noise_gate_enabled |-> TRUE, noise_gate_threshold |-> -40,
     max_concurrent_voices |-> 8]

\* AudioMixer::new(sample_rate, channels)
AudioMixer_new(out_channels) ==
    [user_controls |-> EmptyMap, channel_configs |-> EmptyMap,
     mix_buffer |-> <<>>, stats |-> EmptyMap, channels |-> out_channels]

get_user_controls(m, user_id, channel_id) ==
    IF <<user_id, channel_id>> \in DOMAIN m.user_controls
    THEN m.user_controls[<<user_id, channel_id>>]
    ELSE DefaultUserAudioControls

get_channel_config(m, channel_id) ==
    IF channel_id \in DOMAIN m.channel_configs
    THEN m.channel_configs[channel_id]
    ELSE DefaultChannelMixConfig

\* the amplitude, in hundredths, whose level 20 * log10(|x| / i16::MAX) is
\* the threshold: i16::MAX * 10^(db / 20)
gate_floor(db) ==
    CASE db = -40 -> I16_MAX
      [] db = -20 -> I16_MAX * 10
      [] OTHER -> I16_MAX * 100

\* apply_audio_processing lines 249-279 for one sample
processed_sample(sample, controls, config) ==
    LET volumed == Scaled(Scaled(sample * 100, controls.volume, 100),
                          config.master_volume, 100)
        gated == IF config.noise_gate_enabled
                    /\ Abs(volumed) < gate_floor(config.noise_gate_threshold)
                 THEN 0 ELSE volumed
        suppressed == IF controls.noise_suppression > 0 /\ Abs(gated) < I16_MAX * 10
                      THEN Scaled(gated, 100 - controls.noise_suppression, 100)
                      ELSE gated
    IN  IF controls.high_pass_enabled /\ Abs(suppressed) < I16_MAX * 5
        THEN Scaled(suppressed, 1, 2)
        ELSE suppressed

\* apply_audio_processing: accumulate one voice into the mix buffer
apply_audio_processing(buf, samples, controls, config) ==
    [i \in 1..Len(buf) |->
        IF i <= Len(samples)
        THEN buf[i] + processed_sample(samples[i], controls, config)
        ELSE buf[i]]

\* apply_global_processing lines 300-306
compressed(y, config) ==
    IF config.compression_enabled /\ Abs(y) > I16_MAX * 70
    THEN (IF y >= 0 THEN 1 ELSE -1)
            * (I16_MAX * 70 + (Abs(y) - I16_MAX * 70) \div config.compression_ratio)
    ELSE y

\* apply_global_processing lines 309-312
limited(y) ==
    IF Abs(y) >= I16_MAX * 100 THEN Sgn(y) * (I16_MAX - 1) * 100 ELSE y

\* floor of the square root, by bisection on [lo, hi]
RECURSIVE isqrt_in(_, _, _)
isqrt_in(x, lo, hi) ==
    IF lo >= hi THEN lo
    ELSE LET mid == (lo + hi + 1) \div 2
         IN  IF mid * mid <= x THEN isqrt_in(x, mid, hi) ELSE isqrt_in(x, lo, mid - 1)

\* sum of y^2 / n over the buffer, y in whole units
RECURSIVE mean_square(_, _, _)
mean_square(buf, k, n) ==
    IF k > Len(buf) THEN 0
    ELSE ((Abs(buf[k]) \div 100) * (Abs(buf[k]) \div 100)) \div n
            + mean_square(buf, k + 1, n)

\* apply_global_processing line 318
rms_level(buf) == isqrt_in(mean_square(buf, 1, Len(buf)), 0, I16_MAX)

\* apply_global_processing lines 321-331: the gain, in thousandths
agc_gain(rms) == Max(100, Min(2000, (I16_MAX * 300) \div rms))

apply_global_processing(buf, config) ==
    LET limited_buf == [i \in 1..Len(buf) |-> limited(compressed(buf[i], config))]
        rms == rms_level(limited_buf)
    IN  IF config.auto_gain_control /\ rms > 0
        THEN [i \in 1..Len(buf) |-> Scaled(limited_buf[i], agc_gain(rms), 1000)]
        ELSE limited_buf

\* mix_buffer_to_bytes: clamp to the i16 range, then `as i16`
mix_buffer_to_bytes(buf, sample_count) ==
    [i \in 1..sample_count |->
        IF i <= Len(buf)
        THEN Sgn(buf[i]) * Min(Abs(buf[i]) \div 100,
                               IF buf[i] < 0 THEN -I16_MIN ELSE I16_MAX)
        ELSE 0]

\* a packet handed to the mixer
MixPacket(ptype, user, samples, odd) ==
    [packet_type |-> ptype, user_id |-> user, payload |-> samples, odd |-> odd]

payload_is_empty(p) == p.payload = <<>> /\ ~p.odd

\* mix_packets_advanced lines 158-166
has_solo(m, packets, channel_id) ==
    \E i \in 1..Len(packets) :
        /\ has_audio(packets[i]) /\ ~payload_is_empty(packets[i])
        /\ get_user_controls(m, packets[i].user_id, channel_id).solo

\* the filter of lines 169-184 without the mute check
passes_filter_ignoring_mute(m, packets, channel_id, p) ==
    /\ has_audio(p) /\ ~payload_is_empty(p)
    /\ has_solo(m, packets, channel_id)
          => get_user_controls(m, p.user_id, channel_id).solo

\* mix_packets_advanced lines 169-184: the packet is kept
passes_filter(m, packets, channel_id, p) ==
    /\ has_audio(p) /\ ~payload_is_empty(p)
    /\ ~get_user_controls(m, p.user_id, channel_id).muted
    /\ has_solo(m, packets, channel_id)
          => get_user_controls(m, p.user_id, channel_id).solo

\* mix_packets_advanced lines 169-192, the loop from packet k on: a packet
\* that fails a filter is skipped (continue); the first packet that passes
\* them when max_concurrent_voices packets are kept ends the loop (break)
RECURSIVE filter_loop(_, _, _, _, _)
filter_loop(m, packets, channel_id, k, kept) ==
    IF k > Len(packets) THEN kept
    ELSE IF ~passes_filter(m, packets, channel_id, packets[k])
         THEN filter_loop(m, packets, channel_id, k + 1, kept)
         ELSE IF Len(kept) >= get_channel_config(m, channel_id).max_concurrent_voices
              THEN kept
              ELSE filter_loop(m, packets, channel_id, k + 1, Append(kept, packets[k]))

\* the loop with the voice limit tested before the filters, so that every
\* packet looked at counts toward the limit
RECURSIVE filter_loop_counting_all(_, _, _, _, _)
filter_loop_counting_all(m, packets, channel_id, k, kept) ==
    IF k > Len(packets) THEN kept
    ELSE IF k > get_channel_config(m, channel_id).max_concurrent_voices
         THEN kept
         ELSE IF ~passes_filter(m, packets, channel_id, packets[k])
              THEN filter_loop_counting_all(m, packets, channel_id, k + 1, kept)
              ELSE filter_loop_counting_all(m, packets, channel_id, k + 1,
                                            Append(kept, packets[k]))

active_packets_counting_all(m, packets, channel_id) ==
    filter_loop_counting_all(m, packets, channel_id, 1, <<>>)

\* mix_packets_advanced lines 169-192
active_packets(m, packets, channel_id) == filter_loop(m, packets, channel_id, 1, <<>>)

\* mix_packets_advanced lines 217-221: every active packet whose payload
\* decodes is accumulated
RECURSIVE mix_voices(_, _, _, _, _)
mix_voices(m, buf, active, channel_id, k) ==
    IF k > Len(active) THEN buf
    ELSE mix_voices(m,
                    IF active[k].odd THEN buf
                    ELSE apply_audio_processing(
                             buf, active[k].payload,
                             get_user_controls(m, active[k].user_id, channel_id),
                             get_channel_config(m, channel_id)),
                    active, channel_id, k + 1)

NoOutput == [some |-> FALSE, samples |-> <<>>]

\* mix_packets_advanced: the mixer afterwards and the bytes returned
AudioMixer_mix_packets_advanced(m, packets, channel_id) ==
    LET active == active_packets(m, packets, channel_id)
        sample_count == IF active = <<>> THEN 0 ELSE Len(active[1].payload)
        needed == sample_count * m.channels
        cleared == IF Len(m.mix_buffer) < needed
                   THEN m.mix_buffer \o Zeros(needed - Len(m.mix_buffer))
                   ELSE Zeros(Len(m.mix_buffer))
        config == get_channel_config(m, channel_id)
        mixed == apply_global_processing(
                     mix_voices(m, cleared, active, channel_id, 1), config)
    IN  IF sample_count = 0
        THEN [mixer |-> m, output |-> NoOutput, active |-> active]
        ELSE [mixer |-> [m EXCEPT !.mix_buffer = mixed,
                                  !.stats = Put(@, channel_id,
                                                [active_voices |-> Len(active)])],
              output |-> [some |-> TRUE,
                          samples |-> mix_buffer_to_bytes(mixed, sample_count)],
              active |-> active]

\* set_user_controls, set_channel_config
set_user_controls(m, user_id, channel_id, controls) ==
    [m EXCEPT !.user_controls = Put(@, <<user_id, channel_id>>, controls)]
set_channel_config(m, channel_id, config) ==
    [m EXCEPT !.channel_configs = Put(@, channel_id, config)]

\* set_user_muted, set_user_solo, set_user_volume
\* mutant: the entry is rebuilt from the defaults
set_user_muted_from_defaults(m, user_id, channel_id, muted) ==
    set_user_controls(m, user_id, channel_id,
        [DefaultUserAudioControls EXCEPT !.muted = muted])

set_user_muted(m, user_id, channel_id, muted) ==
    set_user_controls(m, user_id, channel_id,
        [get_user_controls(m, user_id, channel_id) EXCEPT !.muted = muted])
set_user_solo(m, user_id, channel_id, solo) ==
    set_user_controls(m, user_id, channel_id,
        [get_user_controls(m, user_id, channel_id) EXCEPT !.solo = solo])
set_user_volume(m, user_id, channel_id, volume) ==
    set_user_controls(m, user_id, channel_id,
        [get_user_controls(m, user_id, channel_id)
            EXCEPT !.volume = Max(0, Min(200, volume))])
\* pan.clamp(-1.0, 1.0), in hundredths
set_user_pan(m, user_id, channel_id, pan) ==
    set_user_controls(m, user_id, channel_id,
        [get_user_controls(m, user_id, channel_id)
            EXCEPT !.pan = Max(-100, Min(100, pan))])

(***************************************************************************)
(* SpecMixer: one AudioMixer, shared by all mix calls as in the thread     *)
(* pool.  Controls and channel configuration are set, packet lists are     *)
(* mixed; the mix buffer persists from one call to the next.               *)
(***************************************************************************)
MixChannel == "c1"

\* the packet lists mixed: two constant voices; three voices; one loud sample
\* in a quiet frame; full-scale voices; packets without a whole sample
TwoVoices ==
    <<MixPacket("Audio", "u1", <<1000, 1000>>, FALSE),
      MixPacket("Audio", "u2", <<2000, 2000>>, FALSE)>>
ThreeVoices ==
    <<MixPacket("Audio", "u1", <<1000>>, FALSE),
      MixPacket("Audio", "u2", <<2000>>, FALSE),
      MixPacket("Audio", "u3", <<3000>>, FALSE)>>
MixInputs ==
    {TwoVoices, ThreeVoices,
     <<MixPacket("Audio", "u1", <<30000, 0, 0, 0, 0, 0>>, FALSE)>>,
     <<MixPacket("Audio", "u1", <<I16_MIN, I16_MAX>>, FALSE),
       MixPacket("Audio", "u2", <<I16_MIN, I16_MAX>>, FALSE)>>,
     <<MixPacket("Silence", "u1", <<>>, FALSE),
       MixPacket("Audio", "u2", <<>>, TRUE)>>}

MixConfigs ==
    {DefaultChannelMixConfig,
     [DefaultChannelMixConfig EXCEPT !.auto_gain_control = FALSE],
     [DefaultChannelMixConfig EXCEPT !.compression_enabled = FALSE]}

InitMixer ==
    /\ now = 0
    /\ ab = AudioBuffer_new(0, 0)
    /\ GhostInit
    /\ CbIdle
    /\ RouterIdle /\ DirIdle /\ UdpIdle /\ SrvIdle /\ PoolIdle /\ CleanupIdle /\ CodecIdle
    /\ SeqIdle /\ CallIdle
    /\ mixer = AudioMixer_new(2)
    /\ lastMix = NoMixCall

MixRest == <<now, bufVars, cbVars, routerVars, dirVars, udpVars, srvVars, poolVars,
            cleanupVars, codecVars, seqVars, callVars>>

MxSetter(m) ==
    /\ mixer' = m
    /\ lastMix' = NoMixCall
    /\ UNCHANGED MixRest

MxSetUserMuted ==
    \E u \in {"u3"}, muted \in BOOLEAN :
        MxSetter(set_user_muted(mixer, u, MixChannel, muted))

MxSetUserSolo ==
    \E u \in {"u1", "u3"}, solo \in BOOLEAN :
        MxSetter(set_user_solo(mixer, u, MixChannel, solo))

MxSetUserVolume ==
    \E volume \in {250} :
        MxSetter(set_user_volume(mixer, "u2", MixChannel, volume))

MxSetChannelConfig ==
    \E config \in MixConfigs :
        MxSetter(set_channel_config(mixer, MixChannel, config))

MxMix ==
    \E packets \in MixInputs :
        \E r \in {AudioMixer_mix_packets_advanced(mixer, packets, MixChannel)} :
            /\ mixer' = r.mixer
            /\ lastMix' = [op |-> "mix", packets |-> packets, active |-> r.active,
                           output |-> r.output]
            /\ UNCHANGED MixRest

NextMixer ==
    \/ MxSetUserMuted
    \/ MxSetUserSolo
    \/ MxSetUserVolume
    \/ MxSetChannelConfig
    \/ MxMix

SpecMixer == InitMixer /\ [][NextMixer]_vars

\* the controls in force for the user of a packet of the last mix
ControlsOf(p) == get_user_controls(mixer, p.user_id, MixChannel)
AudioBearing(p) == p.packet_type = "Audio" /\ (p.payload # <<>> \/ p.odd)

(***************************************************************************)
(* C14: of the packets handed to mix_packets_advanced, none from a muted   *)
(* user is accumulated into the mix; and when some audio-bearing packet of *)
(* the call comes from a solo user, only packets of solo users are         *)
(* accumulated (so a solo and muted user contributes nothing and the       *)
(* non-solo users stay excluded).                                          *)
(***************************************************************************)
MuteOverridesSolo ==
    lastMix.op = "mix" =>
        /\ \A k \in 1..Len(lastMix.active) : ~ControlsOf(lastMix.active[k]).muted
        /\ (\E i \in 1..Len(lastMix.packets) :
               AudioBearing(lastMix.packets[i]) /\ ControlsOf(lastMix.packets[i]).solo)
           => \A k \in 1..Len(lastMix.active) : ControlsOf(lastMix.active[k]).solo
        /\ \A k \in 1..Len(lastMix.active) :
               \E i \in 1..Len(lastMix.packets) : lastMix.packets[i] = lastMix.active[k]

MuteOverridesSoloWitness ==
    /\ lastMix.op = "mix"
    /\ lastMix.packets = ThreeVoices
    /\ ControlsOf(ThreeVoices[1]).solo /\ ~ControlsOf(ThreeVoices[1]).muted
    /\ ~ControlsOf(ThreeVoices[2]).solo /\ ~ControlsOf(ThreeVoices[2]).muted
    /\ ControlsOf(ThreeVoices[3]).solo /\ ControlsOf(ThreeVoices[3]).muted
    /\ lastMix.active = <<ThreeVoices[1]>>
    /\ lastMix.output.some

(***************************************************************************)
(* C15: every sample mix_packets_advanced emits lies in                    *)
(* [I16_MIN + 1, I16_MAX - 1].                                             *)
(***************************************************************************)
ClipSafety ==
    (lastMix.op = "mix" /\ lastMix.output.some) =>
        \A i \in 1..Len(lastMix.output.samples) :
            /\ lastMix.output.samples[i] >= I16_MIN + 1
            /\ lastMix.output.samples[i] <= I16_MAX - 1

(***************************************************************************)
(* C16: with AGC disabled, the default gate threshold and default controls *)
(* (volume 1.0), mixing a packet of constant +1000 with one of constant    *)
(* +2000 gives as many samples as the inputs, each within [2999, 3001].    *)
(***************************************************************************)
TwoVoicesSum ==
    ( /\ lastMix.op = "mix"
      /\ lastMix.packets = TwoVoices
      /\ ~get_channel_config(mixer, MixChannel).auto_gain_control
      /\ get_channel_config(mixer, MixChannel).noise_gate_threshold = -40
      /\ ControlsOf(TwoVoices[1]) = DefaultUserAudioControls
      /\ ControlsOf(TwoVoices[2]) = DefaultUserAudioControls )
    => /\ lastMix.output.some
       /\ Len(lastMix.output.samples) = Len(TwoVoices[1].payload)
       /\ \A i \in 1..Len(lastMix.output.samples) :
              lastMix.output.samples[i] \in 2999..3001

(***************************************************************************)
(* SpecAdaptive: routing decisions of one channel.  Users u1 and u2 have   *)
(* been added to channel c1; endpoints are registered, the quality mode is *)
(* configured and packets are routed with intelligent_route.               *)
(***************************************************************************)
MaxAdaptiveRoutes == 2

\* AudioRouter::new()
AudioRouter_new ==
    [user_buffers |-> EmptyMap, client_addresses |-> EmptyMap, stats |-> EmptyMap,
     channel_configs |-> EmptyMap, channel_sync |-> EmptyMap]

\* the router is in state r
RouterIs(r) ==
    /\ user_buffers = r.user_buffers
    /\ client_addresses = r.client_addresses
    /\ stats = r.stats
    /\ channel_configs = r.channel_configs
    /\ channel_sync = r.channel_sync

InitAdaptive ==
    /\ now = 0
    /\ ab = AudioBuffer_new(0, 0)
    /\ GhostInit
    /\ CbIdle
    /\ RouterIs(add_user_to_channel(add_user_to_channel(AudioRouter_new, "u1", "c1"),
                                     "u2", "c1"))
    /\ stats_guard = NoChannel
    /\ lastRoute = NoRoute
    /\ routeCalls = 0
    /\ DirIdle /\ UdpIdle /\ SrvIdle /\ ExtIdle

AdRegisterClient ==
    \E in \in RegisterInputs : RouterCall(register_client(Router, in[1], in[2]))

AdConfigureChannel ==
    \E in \in ConfigInputs : RouterCall(configure_channel(Router, in[1], in[2]))

\* intelligent_route; the ghost keeps the mode and the stats the decision saw
AdIntelligentRoute ==
    \E from_user \in UdpUsers :
        \E order \in Orders(recipients(Router, from_user, "c1")) :
            LET p == AudioPacket(0, "Audio", from_user, "c1", 0, now)
                res == intelligent_route(Router, p, from_user, "c1", order)
            IN  /\ stats_guard # "c1"
                /\ routeCalls < MaxAdaptiveRoutes
                /\ routeCalls' = routeCalls + 1
                /\ SetRouter(res.router)
                /\ lastRoute' = [op |-> res.op, from_user |-> from_user,
                                 channel_id |-> "c1", returned |-> res.returned,
                                 destinations |-> res.destinations,
                                 mode |-> quality_mode(Router, "c1"),
                                 before |-> stats["c1"]]
                /\ stats_guard' = IF res.returned THEN stats_guard ELSE "c1"
                /\ UNCHANGED RouterRest

NextAdaptive ==
    \/ AdRegisterClient
    \/ AdConfigureChannel
    \/ AdIntelligentRoute

SpecAdaptive == InitAdaptive /\ [][NextAdaptive]_vars

(***************************************************************************)
(* C17: on a channel configured Adaptive a routing decision takes the Low  *)
(* policy when the channel's packet loss rate is above 5% or its jitter    *)
(* above 100 ms, the High policy when the loss rate is below 1% and the    *)
(* jitter below 20 ms, and the Medium policy otherwise.                    *)
(***************************************************************************)
AdaptivePolicyByPercent ==
    (lastRoute.op # "none" /\ lastRoute.mode = "Adaptive") =>
        LET st == lastRoute.before
        IN  lastRoute.op =
                IF st.loss_num * 100 > 5 * st.loss_den \/ st.jitter_ms > 100
                THEN "route_low_quality"
                ELSE IF st.loss_num * 100 < st.loss_den /\ st.jitter_ms < 20
                     THEN "route_high_quality"
                     ELSE "route_packet"

(***************************************************************************)
(* SpecCleanup: the select loop of AudioUdpServer::start.  Each iteration  *)
(* creates a new 10 s sleep; a datagram or the sleep ends the iteration.   *)
(* Endpoints send Sync packets, whose handler only refreshes the           *)
(* connection entry.                                                       *)
(***************************************************************************)
ConnectionTimeoutUs == 30000000
CleanupPeriodUs == 10000000
CleanupTickUs == CleanupPeriodUs
MaxCleanupTicks == 5
MaxCleanupDatagrams == 5
MaxInFlight == 1

\* cleanup_expired_connections
cleanup_expired_connections(conns, t) ==
    [a \in {b \in DOMAIN conns : t - conns[b].last_packet_time < ConnectionTimeoutUs}
        |-> conns[a]]

InitCleanup ==
    /\ now = 0
    /\ ab = AudioBuffer_new(0, 0)
    /\ GhostInit
    /\ CbIdle
    /\ NetIdle

CleanupRest == <<bufVars, cbVars, routerVars, dirVars, udpVars, poolVars, mixVars,
                 codecVars, seqVars, callVars, mixq, workers, srvSent>>

\* time passes while the select waits; a sleep that is due ends the wait
ClTick ==
    /\ now < MaxCleanupTicks * CleanupTickUs
    /\ now - sleep_start < CleanupPeriodUs
    /\ now' = now + CleanupTickUs
    /\ UNCHANGED <<connections, handlers, srvCount, sleep_start, CleanupRest>>

\* start lines 117-137: recv_from returned, handle_packet is spawned and the
\* loop enters the select again
ClRecv ==
    /\ srvCount < MaxCleanupDatagrams
    /\ Cardinality(DOMAIN handlers) < MaxInFlight
    /\ \E addr \in Addrs :
          LET id == srvCount + 1
              p == AudioPacket(0, "Sync", "u1", DefaultChannel, 0, 0)
          IN  handlers' = Put(handlers, id, [packet |-> p, addr |-> addr])
    /\ srvCount' = srvCount + 1
    /\ sleep_start' = now
    /\ UNCHANGED <<now, connections, CleanupRest>>

\* handle_packet lines 194-210 for a Sync packet
ClHandle ==
    \E id \in DOMAIN handlers :
        /\ connections' = update_connection(connections, handlers[id].addr,
                                            handlers[id].packet, now)
        /\ handlers' = Remove(handlers, id)
        /\ UNCHANGED <<now, srvCount, sleep_start, CleanupRest>>

\* start lines 154-156: the sleep completed
ClCleanup ==
    /\ now - sleep_start >= CleanupPeriodUs
    /\ connections' = cleanup_expired_connections(connections, now)
    /\ sleep_start' = now
    /\ UNCHANGED <<now, handlers, srvCount, CleanupRest>>

NextCleanup ==
    \/ ClTick
    \/ ClRecv
    \/ ClHandle
    \/ ClCleanup

SpecCleanup == InitCleanup /\ [][NextCleanup]_vars

(***************************************************************************)
(* C18: a connection entry whose last packet is older than                 *)
(* connection_timeout is removed within one cleanup period: no entry is    *)
(* ever older than connection_timeout plus 10 s, whatever the other        *)
(* endpoints send.                                                         *)
(***************************************************************************)
ExpiredConnectionRemoved ==
    \A a \in DOMAIN connections :
        now - connections[a].last_packet_time <= ConnectionTimeoutUs + CleanupPeriodUs

(***************************************************************************)
(* audio/packet.rs: the wire format.  AudioHeader::to_bytes is             *)
(* bincode::serialize of the derived Serialize: fields in declaration      *)
(* order, integers little-endian at their fixed width, the enum as the u32 *)
(* index of its variant, a Uuid as a u64 length (16) followed by its 16    *)
(* bytes, the [u8; 3] as its 3 bytes.                                      *)
(***************************************************************************)
U16_MOD == 65536
MinPacketLen == 10

\* the variants of PacketType in declaration order: variant i has index i - 1
PacketTypeVariants == <<"Audio", "Silence", "AudioStart", "AudioStop", "Sync">>
variant_index(ptype) ==
    (CHOOSE i \in 1..Len(PacketTypeVariants) : PacketTypeVariants[i] = ptype) - 1

\* a Uuid is 16 bytes; this one has the value n < 256
Uuid_from_u128(n) == [i \in 1..16 |-> IF i = 16 THEN n ELSE 0]

\* byte i (from 1) of the little-endian form of n
RECURSIVE le_byte(_, _)
le_byte(n, i) == IF i = 1 THEN n % 256 ELSE le_byte(n \div 256, i - 1)
to_le_bytes(n, width) == [i \in 1..width |-> le_byte(n, i)]

RECURSIVE from_le_bytes(_)
from_le_bytes(bs) ==
    IF bs = <<>> THEN 0 ELSE Head(bs) + 256 * from_le_bytes(Tail(bs))

\* AudioHeader::new; t is the reading of SystemTime::now
AudioHeader_new(packet_type, user_id, channel_id, sequence, payload_size, sample_rate, out_channels, t) ==
    [packet_type |-> packet_type, user_id |-> user_id, channel_id |-> channel_id,
     sequence |-> sequence, timestamp |-> t, payload_size |-> payload_size,
     sample_rate |-> sample_rate, channels |-> out_channels,
     reserved |-> <<0, 0, 0>>]

\* AudioPacket::new: `payload.len() as u16` keeps the low 16 bits of the length
AudioPacket_new(packet_type, user_id, channel_id, sequence, payload, sample_rate, out_channels, t) ==
    [header |-> AudioHeader_new(packet_type, user_id, channel_id, sequence,
                                Len(payload) % U16_MOD, sample_rate,
                                out_channels, t),
     payload |-> payload]

AudioPacket_audio(user_id, channel_id, sequence, audio_data, sample_rate, out_channels, t) ==
    AudioPacket_new("Audio", user_id, channel_id, sequence, audio_data,
                    sample_rate, out_channels, t)

AudioPacket_silence(user_id, channel_id, sequence, sample_rate, out_channels, t) ==
    AudioPacket_new("Silence", user_id, channel_id, sequence, <<>>,
                    sample_rate, out_channels, t)

AudioPacket_audio_start(user_id, channel_id, sequence, t) ==
    AudioPacket_new("AudioStart", user_id, channel_id, sequence, <<>>, 48000, 1, t)

AudioPacket_audio_stop(user_id, channel_id, sequence, t) ==
    AudioPacket_new("AudioStop", user_id, channel_id, sequence, <<>>, 48000, 1, t)

AudioHeader_to_bytes(h) ==
    to_le_bytes(variant_index(h.packet_type), 4)
        \o to_le_bytes(16, 8) \o h.user_id
        \o to_le_bytes(16, 8) \o h.channel_id
        \o to_le_bytes(h.sequence, 4)
        \o to_le_bytes(h.timestamp, 8)
        \o to_le_bytes(h.payload_size, 2)
        \o to_le_bytes(h.sample_rate, 4)
        \o to_le_bytes(h.channels, 1)
        \o h.reserved

\* the number of bytes AudioHeader_to_bytes writes, whatever the header
HEADER_LEN == 4 + (8 + 16) + (8 + 16) + 4 + 8 + 2 + 4 + 1 + 3

\* AudioPacket::to_bytes: the header bytes, then the whole payload
AudioPacket_to_bytes(p) == AudioHeader_to_bytes(p.header) \o p.payload

\* bincode::deserialize_from of an AudioHeader: an error when the bytes end
\* before the header does, when the variant index names no variant, or when
\* a Uuid's length is not 16
deserialize_header(bytes) ==
    IF Len(bytes) < HEADER_LEN
           \/ from_le_bytes(SubSeq(bytes, 1, 4)) >= Len(PacketTypeVariants)
           \/ from_le_bytes(SubSeq(bytes, 5, 12)) # 16
           \/ from_le_bytes(SubSeq(bytes, 29, 36)) # 16
    THEN [ok |-> FALSE]
    ELSE [ok |-> TRUE,
          header |->
              [packet_type |-> PacketTypeVariants[from_le_bytes(SubSeq(bytes, 1, 4)) + 1],
               user_id |-> SubSeq(bytes, 13, 28),
               channel_id |-> SubSeq(bytes, 37, 52),
               sequence |-> from_le_bytes(SubSeq(bytes, 53, 56)),
               timestamp |-> from_le_bytes(SubSeq(bytes, 57, 64)),
               payload_size |-> from_le_bytes(SubSeq(bytes, 65, 66)),
               sample_rate |-> from_le_bytes(SubSeq(bytes, 67, 70)),
               channels |-> from_le_bytes(SubSeq(bytes, 71, 71)),
               reserved |-> SubSeq(bytes, 72, 74)]]

\* AudioPacket::from_bytes
AudioPacket_from_bytes(bytes) ==
    IF Len(bytes) < MinPacketLen
    THEN [called |-> TRUE, ok |-> FALSE, err |-> "Packet too small"]
    ELSE LET h == deserialize_header(bytes) IN
         IF ~h.ok
         THEN [called |-> TRUE, ok |-> FALSE, err |-> "Failed to deserialize header"]
         ELSE LET payload_start == HEADER_LEN
                  payload_end == payload_start + h.header.payload_size
              IN  IF Len(bytes) < payload_end
                  THEN [called |-> TRUE, ok |-> FALSE, err |-> "Payload size mismatch"]
                  ELSE [called |-> TRUE, ok |-> TRUE,
                        packet |-> [header |-> h.header,
                                    payload |-> SubSeq(bytes, payload_start + 1,
                                                       payload_end)]]

(***************************************************************************)
(* SpecCodec: packets are built by the constructors, encoded, and byte     *)
(* strings (encoded packets, or datagrams that differ from one) decoded.   *)
(***************************************************************************)
MaxPayloadLen == 65536
MaxCodecSequence == 258

CodecUser == Uuid_from_u128(1)
CodecChannel == Uuid_from_u128(2)
CodecClocks == {1, 16909060}
CodecSequences == {0, MaxCodecSequence}
PayloadLens == {0, 1, 2, MaxPayloadLen - 1, MaxPayloadLen}
\* a payload of n bytes
PayloadOf(n) == [i \in 1..n |-> (i * 7) % 256]

InitCodec ==
    /\ now \in CodecClocks
    /\ ab = AudioBuffer_new(0, 0)
    /\ GhostInit
    /\ CbIdle
    /\ NetIdle

CodecRest == <<now, bufVars, cbVars, routerVars, dirVars, udpVars, srvVars, poolVars,
              mixVars, cleanupVars, seqVars, callVars>>

\* one packet is built in a behaviour
Built(p) ==
    /\ ~cpacket.built
    /\ cpacket' = [built |-> TRUE, packet |-> p]
    /\ cwire' = NoWire
    /\ cdecoded' = NotDecoded
    /\ UNCHANGED CodecRest

\* AudioPacket::new
CdNew ==
    \E ptype \in PacketType, seq \in CodecSequences, n \in PayloadLens :
        Built(AudioPacket_new(ptype, CodecUser, CodecChannel, seq, PayloadOf(n),
                              48000, 1, now))

\* AudioPacket::audio
CdAudio ==
    \E seq \in CodecSequences, n \in PayloadLens, ch \in {1, 2} :
        Built(AudioPacket_audio(CodecUser, CodecChannel, seq, PayloadOf(n),
                                44100, ch, now))

\* AudioPacket::silence
CdSilence ==
    \E seq \in CodecSequences :
        Built(AudioPacket_silence(CodecUser, CodecChannel, seq, 48000, 2, now))

\* AudioPacket::audio_start
CdAudioStart ==
    \E seq \in CodecSequences :
        Built(AudioPacket_audio_start(CodecUser, CodecChannel, seq, now))

\* AudioPacket::audio_stop
CdAudioStop ==
    \E seq \in CodecSequences :
        Built(AudioPacket_audio_stop(CodecUser, CodecChannel, seq, now))

\* AudioPacket::to_bytes on the packet built
CdToBytes ==
    /\ cpacket.built
    /\ cwire.kind = "none"
    /\ cwire' = [kind |-> "encoded", bytes |-> AudioPacket_to_bytes(cpacket.packet)]
    /\ cdecoded' = NotDecoded
    /\ UNCHANGED <<cpacket, CodecRest>>

\* a datagram that is not the encoding of the packet built: cut short, cut
\* inside the header, one byte short, one byte long, or with a variant index
\* that names no variant
Datagrams(bytes) ==
    {SubSeq(bytes, 1, MinPacketLen - 1),
     SubSeq(bytes, 1, HEADER_LEN - 1),
     SubSeq(bytes, 1, Len(bytes) - 1),
     bytes \o <<255>>,
     [bytes EXCEPT ![1] = Len(PacketTypeVariants)]}

CdReceive ==
    /\ cwire.kind = "encoded"
    /\ \E d \in Datagrams(cwire.bytes) :
           cwire' = [kind |-> "datagram", bytes |-> d]
    /\ cdecoded' = NotDecoded
    /\ UNCHANGED <<cpacket, CodecRest>>

\* AudioPacket::from_bytes on the byte string
CdFromBytes ==
    /\ cwire.kind # "none"
    /\ ~cdecoded.called
    /\ cdecoded' = AudioPacket_from_bytes(cwire.bytes)
    /\ UNCHANGED <<cpacket, cwire, CodecRest>>

NextCodec ==
    \/ CdNew
    \/ CdAudio
    \/ CdSilence
    \/ CdAudioStart
    \/ CdAudioStop
    \/ CdToBytes
    \/ CdReceive
    \/ CdFromBytes

SpecCodec == InitCodec /\ [][NextCodec]_vars

\* C19: the packet built by a constructor, encoded by to_bytes and decoded by
\* from_bytes, comes back: from_bytes succeeds and the packet it returns has
\* the header fields and the payload of the packet built.
CodecRoundTrip ==
    (cwire.kind = "encoded" /\ cdecoded.called) =>
        /\ cdecoded.ok
        /\ cdecoded.packet.header = cpacket.packet.header
        /\ cdecoded.packet.payload = cpacket.packet.payload

\* C20: a packet returned by a constructor, and a packet from_bytes accepted,
\* has header.payload_size equal to the length of its payload, and the
\* encoding of a packet is HEADER_LEN + payload_size bytes long.
PayloadSizeExact ==
    /\ cpacket.built =>
           cpacket.packet.header.payload_size = Len(cpacket.packet.payload)
    /\ (cdecoded.called /\ cdecoded.ok) =>
           cdecoded.packet.header.payload_size = Len(cdecoded.packet.payload)
    /\ cwire.kind = "encoded" =>
           Len(cwire.bytes) = HEADER_LEN + cpacket.packet.header.payload_size

(***************************************************************************)
(* SpecStale: an AudioBuffer with a target latency from the allowed range  *)
(* receives audio packets stamped 200 ms in the past (and fresh ones), is  *)
(* asked for its ready packets and is cleaned, all at one instant.         *)
(***************************************************************************)
PastUs == 2 * StaleUs
StaleLatencyMs == {MinLatencyUs \div 1000, 50, 200, 201, MaxLatencyUs \div 1000}

InitStale ==
    /\ now = PastUs
    /\ \E capacity \in {1, MaxCap}, ms \in StaleLatencyMs :
           ab = AudioBuffer_new(capacity, ms)
    /\ GhostInit
    /\ CbIdle
    /\ NetIdle

StPush ==
    /\ nextId <= MaxPush
    /\ \E ts \in {now - PastUs, now} :
          LET p == AudioPacket(nextId, "Audio", BufUser, BufChannel, nextId, ts)
          IN  /\ ab' = AudioBuffer_push(ab, p)
              /\ gone' = gone \cup AudioBuffer_evicted(ab, p)
    /\ nextId' = nextId + 1
    /\ lastOp' = OtherOp
    /\ UNCHANGED <<now, relCount, lateRel, cbVars, netVars>>

StaleIn(c, t) == {i \in 1..Len(c.buffer) : is_stale(c.buffer[i], t)}

StCleanup ==
    /\ ab' = AudioBuffer_cleanup(ab, now)
    /\ gone' = gone \cup (Resident(ab) \ Resident(ab'))
    /\ lastOp' = [op |-> "cleanup",
                  stale |-> Cardinality(StaleIn(ab.audio_buffer, now)),
                  dropped |-> ab.audio_buffer.dropped_packets]
    /\ UNCHANGED <<now, nextId, relCount, lateRel, cbVars, netVars>>

NextStale ==
    \/ StPush
    \/ BufGetReady
    \/ StCleanup

SpecStale == InitStale /\ [][NextStale]_vars

\* C21: whatever the target latency in [20 ms, 500 ms], get_ready_packets
\* returns no packet older than the 100 ms staleness threshold (so not the
\* packet stamped 200 ms in the past), and cleanup removes every such packet
\* still buffered, adding one to dropped_packets for each.
StaleWithheldThenDropped ==
    /\ lastOp.op = "get_ready_packets" =>
           \A k \in 1..Len(lastOp.out) : ~is_stale(lastOp.out[k], now)
    /\ lastOp.op = "cleanup" =>
           /\ StaleIn(ab.audio_buffer, now) = {}
           /\ ab.audio_buffer.dropped_packets = lastOp.dropped + lastOp.stale

(***************************************************************************)
(* C22: a call of get_ready_packets returns all the control packets the    *)
(* buffer holds, whatever their age, in their order and before any audio   *)
(* packet, and empties the control buffer; an audio packet younger than    *)
(* the target latency is not returned and stays in the audio buffer.       *)
(***************************************************************************)
ControlFirstAudioWithheld ==
    [][lastOp'.op = "get_ready_packets" =>
          LET ctl == ab.control_buffer.buffer
              aud == ab.audio_buffer.buffer
              out == lastOp'.out
          IN  /\ Len(out) >= Len(ctl)
              /\ SubSeq(out, 1, Len(ctl)) = ctl
              /\ \A k \in (Len(ctl) + 1)..Len(out) : ~is_control(out[k])
              /\ ab'.control_buffer.buffer = <<>>
              /\ \A i \in 1..Len(aud) :
                     age_micros(aud[i], now) < ab.target_latency_us =>
                         /\ aud[i].id \notin Ids(out)
                         /\ aud[i].id \in Ids(ab'.audio_buffer.buffer)]_vars

\* a call returned a control packet older than the staleness threshold and
\* then an audio packet, and withheld a younger audio packet
ControlFirstAudioWithheldWitness ==
    /\ lastOp.op = "get_ready_packets"
    /\ Len(lastOp.out) = 2
    /\ is_control(lastOp.out[1]) /\ is_stale(lastOp.out[1], now)
    /\ has_audio(lastOp.out[2])
    /\ Len(ab.audio_buffer.buffer) = 1
    /\ age_micros(ab.audio_buffer.buffer[1], now) < ab.target_latency_us

(***************************************************************************)
(* C23: from the return of AudioThreadPool::new until shutdown is called,  *)
(* the statistics report as many active workers as the pool has workers.   *)
(***************************************************************************)
ActiveWorkersIsMaxWorkers ==
    pshut = "running" => pstats.active_workers = MaxWorkers

(***************************************************************************)
(* audio/packet.rs: SequenceManager.  A u32 is kept at its width as the    *)
(* pair <<high, low>> of its 16-bit halves.                                *)
(***************************************************************************)
SeqTolerance == 10
U32_MAX == <<U16_MOD - 1, U16_MOD - 1>>

u32_le(a, b) == a[1] < b[1] \/ (a[1] = b[1] /\ a[2] <= b[2])
u32_ge(a, b) == u32_le(b, a)

\* a + n and a - n modulo 2^32, for n < 2^16
u32_wrapping_add(a, n) ==
    LET low == a[2] + n
    IN  <<(a[1] + low \div U16_MOD) % U16_MOD, low % U16_MOD>>
u32_wrapping_sub(a, n) ==
    IF a[2] >= n THEN <<a[1], a[2] - n>>
    ELSE <<(a[1] + U16_MOD - 1) % U16_MOD, a[2] + U16_MOD - n>>

\* `a + n` on u32 leaves the range
u32_add_overflows(a, n) == a[1] = U16_MOD - 1 /\ a[2] + n >= U16_MOD

\* SequenceManager::next: the number returned and the manager afterwards
SequenceManager_next(next) ==
    [seq |-> next, next_sequence |-> u32_wrapping_add(next, 1)]

\* SequenceManager::is_in_order: the outcomes of a call.  `expected +
\* tolerance` is evaluated only when the left operand of the && holds; when
\* it overflows, the call panics in a build with overflow checks and goes on
\* with the wrapped sum in a build without.
SequenceManager_is_in_order(expected, sequence) ==
    IF u32_ge(expected, <<0, SeqTolerance>>)
    THEN IF ~u32_ge(sequence, u32_wrapping_sub(expected, SeqTolerance))
         THEN {"false"}
         ELSE LET upper == u32_le(sequence, u32_wrapping_add(expected, SeqTolerance))
              IN  IF u32_add_overflows(expected, SeqTolerance)
                  THEN {"panic", IF upper THEN "true" ELSE "false"}
                  ELSE {IF upper THEN "true" ELSE "false"}
    ELSE {IF \/ u32_le(sequence, u32_wrapping_add(expected, SeqTolerance))
             \/ u32_ge(sequence, u32_wrapping_add(
                                     u32_wrapping_sub(U32_MAX, SeqTolerance),
                                     expected[2]))
          THEN "true" ELSE "false"}

(***************************************************************************)
(* SpecSequence: a SequenceManager that has handed out some numbers is     *)
(* asked for the next one and asked whether sequence numbers are in order. *)
(***************************************************************************)
MaxSeqCalls == 14
MaxProbe == 12

\* the state of a manager after 0, 8, 2^16 - 2 and 2^32 - 13 calls of next
StartSequences == {<<0, 0>>, <<0, 8>>, <<0, U16_MOD - 2>>, u32_wrapping_sub(U32_MAX, 12)}
SeqWindow ==
    {u32_wrapping_add(s, k) : s \in StartSequences, k \in 0..(MaxSeqCalls - 1)}
\* sequence numbers around x, and the two ends of the range
Probes(x) ==
    {u32_wrapping_add(x, d) : d \in 0..MaxProbe}
        \cup {u32_wrapping_sub(x, d) : d \in 1..MaxProbe}
        \cup {<<0, 0>>, U32_MAX}

InitSequence ==
    /\ now = 0
    /\ ab = AudioBuffer_new(0, 0)
    /\ GhostInit
    /\ CbIdle
    /\ RouterIdle /\ DirIdle /\ UdpIdle /\ SrvIdle
    /\ PoolIdle /\ MixIdle /\ CleanupIdle /\ CodecIdle /\ CallIdle
    /\ next_sequence \in StartSequences
    /\ lastSeq = NoSeqCall

SeqRest == <<now, bufVars, cbVars, routerVars, dirVars, udpVars, srvVars, poolVars,
            mixVars, cleanupVars, codecVars, callVars>>

SqNext ==
    /\ next_sequence \in SeqWindow
    /\ LET r == SequenceManager_next(next_sequence)
       IN  /\ next_sequence' = r.next_sequence
           /\ lastSeq' = [op |-> "next", seq |-> r.seq, before |-> next_sequence]
    /\ UNCHANGED SeqRest

SqIsInOrder ==
    /\ \E sequence \in Probes(next_sequence) :
         \E outcome \in SequenceManager_is_in_order(next_sequence, sequence) :
           lastSeq' = [op |-> "is_in_order", sequence |-> sequence,
                       outcome |-> outcome]
    /\ UNCHANGED <<next_sequence, SeqRest>>

NextSequence ==
    \/ SqNext
    \/ SqIsInOrder

SpecSequence == InitSequence /\ [][NextSequence]_vars

\* the distance of a and b on the circle of the 2^32 sequence numbers is at
\* most n
WithinWrapping(a, b, n) ==
    \E d \in 0..n : a = u32_wrapping_add(b, d) \/ a = u32_wrapping_sub(b, d)

\* C24: next returns the number the manager holds and moves to its successor
\* modulo 2^32; is_in_order(s) never overflows and is true exactly when s is
\* within 10 of the next expected number in wrapping distance.
SequenceWrapsAndOrders ==
    /\ lastSeq.op = "next" =>
           /\ lastSeq.seq = lastSeq.before
           /\ next_sequence = IF lastSeq.before = U32_MAX THEN <<0, 0>>
                              ELSE u32_wrapping_add(lastSeq.before, 1)
    /\ lastSeq.op = "is_in_order" =>
           /\ lastSeq.outcome # "panic"
           /\ lastSeq.outcome = "true" <=>
                  WithinWrapping(lastSeq.sequence, next_sequence, SeqTolerance)

(***************************************************************************)
(* SpecControls: the four per-user setters of an AudioMixer, applied in    *)
(* any order to the controls of three (user, channel) pairs.               *)
(***************************************************************************)
ControlPairs == {<<"u1", "c1">>, <<"u2", "c1">>, <<"u1", "c2">>}
\* the volume and the pan asked for, in hundredths: outside the range
VolumeInputs == {250}
PanInputs == {-150}

InitControls ==
    /\ now = 0
    /\ ab = AudioBuffer_new(0, 0)
    /\ GhostInit
    /\ CbIdle
    /\ RouterIdle /\ DirIdle /\ UdpIdle /\ SrvIdle /\ PoolIdle /\ CleanupIdle
    /\ CodecIdle /\ SeqIdle /\ CallIdle
    /\ mixer = AudioMixer_new(2)
    /\ lastMix = NoMixCall

\* ghost: the setter called, its arguments and the controls map before it
SetterCall(name, key, value) ==
    [op |-> name, user_id |-> key[1], channel_id |-> key[2], value |-> value,
     before |-> mixer.user_controls]

CtSetUserMuted ==
    /\ \E key \in ControlPairs, muted \in BOOLEAN :
          /\ mixer' = set_user_muted(mixer, key[1], key[2], muted)
          /\ lastMix' = SetterCall("set_user_muted", key, muted)
    /\ UNCHANGED MixRest

CtSetUserSolo ==
    /\ \E key \in ControlPairs, solo \in BOOLEAN :
          /\ mixer' = set_user_solo(mixer, key[1], key[2], solo)
          /\ lastMix' = SetterCall("set_user_solo", key, solo)
    /\ UNCHANGED MixRest

CtSetUserVolume ==
    /\ \E key \in ControlPairs, volume \in VolumeInputs :
          /\ mixer' = set_user_volume(mixer, key[1], key[2], volume)
          /\ lastMix' = SetterCall("set_user_volume", key, volume)
    /\ UNCHANGED MixRest

CtSetUserPan ==
    /\ \E key \in ControlPairs, pan \in PanInputs :
          /\ mixer' = set_user_pan(mixer, key[1], key[2], pan)
          /\ lastMix' = SetterCall("set_user_pan", key, pan)
    /\ UNCHANGED MixRest

NextControls ==
    \/ CtSetUserMuted
    \/ CtSetUserSolo
    \/ CtSetUserVolume
    \/ CtSetUserPan

SpecControls == InitControls /\ [][NextControls]_vars

\* the controls of a pair in a controls map: the entry, or the defaults
ControlsIn(map, key) ==
    IF key \in DOMAIN map THEN map[key] ELSE DefaultUserAudioControls

\* the field a setter names
FieldOf(name) ==
    CASE name = "set_user_muted" -> "muted"
      [] name = "set_user_solo" -> "solo"
      [] name = "set_user_volume" -> "volume"
      [] name = "set_user_pan" -> "pan"

\* C25: a setter applied to a (user, channel) pair leaves every field of the
\* pair's controls but the one it names as it was (as in the defaults when
\* the pair had no entry), and leaves every other pair as it was: with the
\* same entry, or still without one.
SetterChangesOneField ==
    lastMix.op \in {"set_user_muted", "set_user_solo", "set_user_volume", "set_user_pan"} =>
        LET key == <<lastMix.user_id, lastMix.channel_id>>
            old == ControlsIn(lastMix.before, key)
            new == mixer.user_controls
        IN  /\ key \in DOMAIN new
            /\ \A f \in DOMAIN old \ {FieldOf(lastMix.op)} : new[key][f] = old[f]
            /\ lastMix.op \in {"set_user_muted", "set_user_solo"} =>
                   new[key][FieldOf(lastMix.op)] = lastMix.value
            /\ DOMAIN new = DOMAIN lastMix.before \cup {key}
            /\ \A k \in DOMAIN lastMix.before \ {key} : new[k] = lastMix.before[k]

\* set_user_muted on a pair whose volume, pan and solo had been changed,
\* while another pair has an entry of its own
SetterChangesOneFieldWitness ==
    /\ lastMix.op = "set_user_muted"
    /\ lastMix.value
    /\ LET key == <<lastMix.user_id, lastMix.channel_id>>
       IN  /\ key \in DOMAIN lastMix.before
           /\ lastMix.before[key].volume = 200
           /\ lastMix.before[key].pan = -100
           /\ lastMix.before[key].solo
           /\ ~lastMix.before[key].muted
           /\ DOMAIN lastMix.before # {key}

(***************************************************************************)
(* C26: every routing call returns, whatever the quality mode of the       *)
(* channel and whether or not the channel has a stats entry: no call is    *)
(* left waiting for the stats entry it holds a reference to.               *)
(***************************************************************************)
EveryRouteReturns ==
    /\ lastRoute.op # "none" => lastRoute.returned
    /\ stats_guard = NoChannel

(***************************************************************************)
(* C27: a routing call that returns, for an Audio packet sent by a member  *)
(* of the channel, appends the packet to the buffer of the (sender,        *)
(* channel) pair: the total_packets of the audio part of that buffer grows *)
(* by one and the packet is in it, for get_packets_for_user to release.    *)
(***************************************************************************)
RoutedPacketBuffered ==
    [][(routeCalls' = routeCalls + 1 /\ lastRoute'.returned
            /\ <<lastRoute'.from_user, lastRoute'.channel_id>> \in DOMAIN user_buffers) =>
          LET key == <<lastRoute'.from_user, lastRoute'.channel_id>>
          IN  /\ key \in DOMAIN user_buffers'
              /\ user_buffers'[key].audio_buffer.total_packets
                     = user_buffers[key].audio_buffer.total_packets + 1
              /\ Len(user_buffers'[key].audio_buffer.buffer) >= 1]_vars

(***************************************************************************)
(* SpecPoolFair: the pool with the tokio scheduler's guarantee that a      *)
(* worker task, and the caller of shutdown, that can take a step always    *)
(* ends up taking one.  What callers do (submit, shutdown) and the clock   *)
(* are under no such obligation.                                           *)
(***************************************************************************)
SpecPoolFair ==
    /\ SpecPool
    /\ WF_vars(PoolWorkerStart)
    /\ WF_vars(PoolTake)
    /\ WF_vars(PoolAcquire)
    /\ WF_vars(PoolProcess)
    /\ WF_vars(PoolWorkerExit)
    /\ WF_vars(PoolShutdownReturn)

\* C28: every task submit_mix_task accepted has its response channel
\* resolved with a value in the end, the mix or None, also when the task is
\* still queued at the time shutdown is called.
AcceptedJobResolved ==
    \A id \in 1..MaxPoolTasks :
        (id \in DOMAIN psink) ~> (id \in DOMAIN psink /\ psink[id] # Pending)

(***************************************************************************)
(* SpecPriority: tasks of the four priorities are submitted through        *)
(* submit_mix_task and submit_priority_mix to a running pool with the      *)
(* default enable_priority_queue = true; the workers take and process      *)
(* them; a caller of submit_priority_mix gets the result or times out.     *)
(***************************************************************************)
MaxPriorityTasks == 2

\* AudioProcessingPriority, Low = 0 .. Critical = 3
PriorityRank == [Low |-> 0, Normal |-> 1, High |-> 2, Critical |-> 3]
AudioProcessingPriority == DOMAIN PriorityRank

PriorityRest == <<now, PoolRest>>

\* submit_mix_task lines 230-274 for task id
Submitted(id, priority, name) ==
    LET p == WithPayload(AudioPacket(id, "Audio", "u1", DefaultChannel, id, now), 2)
    IN  /\ ptasks' = submit_mix_task(ptasks, id, DefaultChannel, <<p>>, priority, now)
        /\ psink' = IF submit_ok(ptasks) THEN Put(psink, id, Pending) ELSE psink
        /\ pstats' = submit_stats(pstats, ptasks)
        /\ pnext' = id
        /\ plast' = [op |-> name, id |-> id, ok |-> submit_ok(ptasks),
                     queue |-> ptasks, stats |-> pstats]

\* submit_mix_task, the caller keeps the receiver
PrSubmitMixTask ==
    /\ pnext < MaxPriorityTasks
    /\ \E priority \in AudioProcessingPriority :
           Submitted(pnext + 1, priority, "submit")
    /\ UNCHANGED <<pworkers, permits, pshut, pwait, now, bufVars, cbVars, routerVars,
                   dirVars, udpVars, srvVars, mixVars, cleanupVars, codecVars, seqVars>>

\* submit_priority_mix lines 284-286: submit_mix_task, then the caller waits
\* for the result under its timeout (`?` returns at once when the submit
\* failed)
PrSubmitPriorityMix ==
    /\ pnext < MaxPriorityTasks
    /\ \E priority \in AudioProcessingPriority :
           Submitted(pnext + 1, priority, "submit_priority_mix")
    /\ pwait' = IF submit_ok(ptasks) THEN Put(pwait, pnext + 1, "waiting") ELSE pwait
    /\ UNCHANGED <<pworkers, permits, pshut, now, bufVars, cbVars, routerVars,
                   dirVars, udpVars, srvVars, mixVars, cleanupVars, codecVars, seqVars>>

\* submit_priority_mix lines 287-292: the result arrived within the timeout
PrResult ==
    \E id \in DOMAIN pwait :
        /\ pwait[id] = "waiting"
        /\ psink[id].received
        /\ pwait' = Put(pwait, id, "returned")
        /\ pstats' = [pstats EXCEPT !.queued_tasks = Max(@ - 1, 0)]
        /\ plast' = NoPoolOp
        /\ UNCHANGED <<ptasks, pworkers, permits, pshut, psink, pnext, now, bufVars, cbVars,
                       routerVars, dirVars, udpVars, srvVars, mixVars, cleanupVars,
                       codecVars, seqVars>>

\* submit_priority_mix line 294: the timeout elapsed before the result
PrTimeout ==
    \E id \in DOMAIN pwait :
        /\ pwait[id] = "waiting"
        /\ ~psink[id].received
        /\ pwait' = Put(pwait, id, "timed out")
        /\ plast' = NoPoolOp
        /\ UNCHANGED <<ptasks, pworkers, pstats, permits, pshut, psink, pnext, now, bufVars,
                       cbVars, routerVars, dirVars, udpVars, srvVars, mixVars, cleanupVars,
                       codecVars, seqVars>>

NextPriority ==
    \/ PrSubmitMixTask
    \/ PrSubmitPriorityMix
    \/ PrResult
    \/ PrTimeout
    \/ PoolWorkerStart
    \/ PoolTake
    \/ PoolAcquire
    \/ PoolProcess

SpecPriority == InitPool /\ [][NextPriority]_vars

\* C29: with the priority queue enabled a worker takes, of the queued tasks,
\* one of the highest priority: no task still queued after a take has a
\* higher priority than the task taken.
TakenInPriorityOrder ==
    [][(plast'.op = "take" /\ Len(ptasks') < Len(ptasks)) =>
          LET taken == CHOOSE t \in Range(ptasks) : t.id = plast'.id
          IN  \A k \in 1..Len(ptasks') :
                  PriorityRank[ptasks'[k].priority] <= PriorityRank[taken.priority]]_vars

(***************************************************************************)
(* C30: the queued_tasks statistic is the number of tasks accepted and not *)
(* yet taken by a worker, whichever entry point submitted them and whether *)
(* or not a caller timed out; so it never exceeds queue_size and is 0 once *)
(* every task has been processed.                                          *)
(***************************************************************************)
QueuedTasksIsQueueLength ==
    /\ pstats.queued_tasks = Len(ptasks)
    /\ pstats.queued_tasks <= QueueSize

(***************************************************************************)
(* C31: when handle_packet has handled a decoded datagram from endpoint E  *)
(* carrying user U and channel C, the connection entry of E holds user_id  *)
(* U, channel_id C and a last_packet_time equal to the handling time,      *)
(* whether the entry was inserted by this call or existed before with      *)
(* another user or channel.                                                *)
(***************************************************************************)
HandledNow(id) ==
    /\ id \in DOMAIN handlers
    /\ handlers[id].pc = "start"
    /\ handlers[id].decodes
    /\ (id \notin DOMAIN handlers' \/ handlers'[id].pc # "start")

ConnectionEntryFollowsDatagram ==
    [][\A id \in DOMAIN handlers :
          HandledNow(id) =>
              /\ handlers[id].addr \in DOMAIN connections'
              /\ connections'[handlers[id].addr].user_id = handlers[id].packet.user_id
              /\ connections'[handlers[id].addr].channel_id = handlers[id].packet.channel_id
              /\ connections'[handlers[id].addr].last_packet_time = now]_vars

(***************************************************************************)
(* C32: the connection table never holds more than                         *)
(* max_concurrent_connections entries; a datagram from a new endpoint that *)
(* arrives when the table is at the cap adds no entry.  The server is      *)
(* built with AudioServerConfig { max_concurrent_connections: 1, .. }.     *)
(***************************************************************************)
max_concurrent_connections == 1

ConnectionsWithinCap == Cardinality(DOMAIN connections) <= max_concurrent_connections

(***************************************************************************)
(* SpecDatagram: the UdpServer of SpecUdp, with the datagram handled last  *)
(* and the messages its handler queued kept in lastDatagram.               *)
(***************************************************************************)
MaxTypedDatagrams == 2

DgRecv == UdpHandle(TRUE, MaxTypedDatagrams)

NextDatagram ==
    \/ UdpCreateUser
    \/ UdpDisconnectUser
    \/ UdpWsDisconnect
    \/ UdpJoinChannel
    \/ UdpLeaveChannel
    \/ DgRecv
    \/ UdpIngressSend
    \/ UdpSendTask

SpecDatagram == InitUdp /\ [][NextDatagram]_vars

\* the endpoints the handler of the last datagram sends a message to
Targets(d) == {d.pending[k][2] : k \in 1..Len(d.pending)}

(***************************************************************************)
(* C33: UdpServer routes an accepted datagram by its type: a Silence       *)
(* packet is sent to no endpoint; a Sync packet is sent to its source      *)
(* endpoint and to no other; an AudioStart or AudioStop packet is sent to  *)
(* the endpoint of every other member of the channel and not to the        *)
(* sender's.  (Loopback mode only changes the Audio path.)                 *)
(***************************************************************************)
RoutedByType ==
    [][(recvCount' = recvCount + 1 /\ lastDatagram'.accepted) =>
          LET d == lastDatagram'
          IN  /\ d.packet_type = "Silence" => Targets(d) = {}
              /\ d.packet_type = "Sync" => Targets(d) = {d.from_addr}
              /\ d.packet_type \in {"AudioStart", "AudioStop"} =>
                    Targets(d) = OwedEndpoints(Router', channels, d.packet)]_vars

(***************************************************************************)
(* SpecVoices: one AudioMixer mixing packet lists whose voices differ in   *)
(* length, with packets the filters reject ahead of and between the ones   *)
(* they keep, under voice limits of 0, 1, 2 and 8.  The mix buffer         *)
(* persists from one call to the next.                                     *)
(***************************************************************************)
VoiceLimits == {0, 1, 2, 8}

VoiceConfigs ==
    {[DefaultChannelMixConfig EXCEPT !.max_concurrent_voices = n] : n \in VoiceLimits}

\* a long voice before a short one; the same two the other way round; a
\* Silence packet and three one-sample voices (u3 can be muted, u1 and u3
\* solo); one three-sample voice; a voice of three bytes behind a whole one
VoiceInputs ==
    {<<MixPacket("Audio", "u1", <<1000, 1000>>, FALSE),
       MixPacket("Audio", "u2", <<2000>>, FALSE)>>,
     <<MixPacket("Audio", "u2", <<2000>>, FALSE),
       MixPacket("Audio", "u1", <<1000, 1000>>, FALSE)>>,
     <<MixPacket("Silence", "u1", <<>>, FALSE),
       MixPacket("Audio", "u3", <<3000>>, FALSE),
       MixPacket("Audio", "u1", <<1000>>, FALSE),
       MixPacket("Audio", "u2", <<2000>>, FALSE)>>,
     <<MixPacket("Audio", "u1", <<1000, 1000, 1000>>, FALSE)>>,
     <<MixPacket("Audio", "u1", <<1000>>, FALSE),
       MixPacket("Audio", "u2", <<2000>>, TRUE)>>}

VcSetChannelConfig ==
    \E config \in VoiceConfigs :
        MxSetter(set_channel_config(mixer, MixChannel, config))

VcMix ==
    \E packets \in VoiceInputs :
        \E r \in {AudioMixer_mix_packets_advanced(mixer, packets, MixChannel)} :
            /\ mixer' = r.mixer
            /\ lastMix' = [op |-> "mix", packets |-> packets, active |-> r.active,
                           output |-> r.output]
            /\ UNCHANGED MixRest

NextVoices ==
    \/ MxSetUserMuted
    \/ MxSetUserSolo
    \/ VcSetChannelConfig
    \/ VcMix

SpecVoices == InitMixer /\ [][NextVoices]_vars

\* the voices of the last mix that were accumulated: bytes_to_samples rejects
\* a payload with an odd number of bytes
Contributors == SelectSeq(lastMix.active, LAMBDA p : ~p.odd)

ShortestContributor ==
    CHOOSE n \in {Len(Contributors[k].payload) : k \in 1..Len(Contributors)} :
        \A k \in 1..Len(Contributors) : n <= Len(Contributors[k].payload)

(***************************************************************************)
(* C34: when the voices of one mix differ in sample count, the output of   *)
(* mix_packets_advanced has as many samples as the shortest voice, in      *)
(* whatever order the packets come and whatever the sizes of the earlier   *)
(* mixes of the same mixer.                                                *)
(***************************************************************************)
OutputHasShortestLength ==
    (lastMix.op = "mix" /\ lastMix.output.some /\ Contributors # <<>>) =>
        Len(lastMix.output.samples) = ShortestContributor

\* the packets of the last mix that pass the type, mute and solo filters
Survivors ==
    SelectSeq(lastMix.packets,
              LAMBDA p : /\ AudioBearing(p)
                         /\ ~ControlsOf(p).muted
                         /\ (\E i \in 1..Len(lastMix.packets) :
                                AudioBearing(lastMix.packets[i])
                                    /\ ControlsOf(lastMix.packets[i]).solo)
                               => ControlsOf(p).solo)

VoiceLimit == get_channel_config(mixer, MixChannel).max_concurrent_voices

(***************************************************************************)
(* C35: mix_packets_advanced mixes at most max_concurrent_voices voices:   *)
(* the first ones, in arrival order, of the packets that pass the type,    *)
(* solo and mute filters.  The packets the filters reject do not count     *)
(* toward the limit.                                                       *)
(***************************************************************************)
VoicesLimitedInArrivalOrder ==
    lastMix.op = "mix" =>
        /\ Len(lastMix.active) <= VoiceLimit
        /\ lastMix.active = SubSeq(Survivors, 1, Min(Len(Survivors), VoiceLimit))

\* a mix of four packets under a limit of 2: the first two are rejected (a
\* Silence packet and a muted user's), the two behind them are both mixed
VoicesLimitedInArrivalOrderWitness ==
    /\ lastMix.op = "mix"
    /\ Len(lastMix.packets) = 4
    /\ VoiceLimit = 2
    /\ ControlsOf(lastMix.packets[2]).muted
    /\ Len(Survivors) = 2
    /\ lastMix.active = SubSeq(lastMix.packets, 3, 4)

\* a mix in which the limit cuts: more packets pass the filters than the
\* limit admits
VoicesLimitedCutWitness ==
    /\ lastMix.op = "mix"
    /\ VoiceLimit = 1
    /\ Len(Survivors) = 3
    /\ Len(lastMix.active) = 1

\* the target auto_adjust_latency is to compute from the buffer a
ExpectedAutoTarget(a) ==
    IF drop_rate_above_5(a.audio_buffer)
    THEN Min(MulDiv(a.target_latency_us, 110, 100), MaxLatencyUs)
    ELSE IF drop_rate_below_1(a.audio_buffer)
            /\ Len(a.audio_buffer.buffer) <= a.audio_buffer.capacity \div 2
         THEN Max(MulDiv(a.target_latency_us, 95, 100), MinLatencyUs)
         ELSE a.target_latency_us

(***************************************************************************)
(* C36: auto_adjust_latency sets the target to min(target * 1.10, 500_000) *)
(* when the audio drop rate is above 5%; otherwise to                      *)
(* max(target * 0.95, 20_000) when the drop rate is below 1% and the audio *)
(* buffer holds at most capacity / 2 packets, exactly capacity / 2         *)
(* included; otherwise it leaves the target as it was.                     *)
(***************************************************************************)
AutoAdjustExact ==
    [][lastOp'.op = "auto_adjust_latency" =>
          ab'.target_latency_us = ExpectedAutoTarget(ab)]_vars

\* the number of (user, channel) jitter buffers the router holds for channel c
BuffersOf(c) == Cardinality({u \in Users : <<u, c>> \in DOMAIN user_buffers})

(***************************************************************************)
(* C37: after any sequence of add_user_to_channel,                         *)
(* remove_user_from_channel, unregister_client and cleanup_channel calls,  *)
(* the connected_users counter of every channel that has a stats entry     *)
(* equals the number of (user, channel) jitter buffers of that channel.    *)
(***************************************************************************)
ConnectedUsersCountsBuffers ==
    \A c \in DOMAIN stats : stats[c].connected_users = BuffersOf(c)

(***************************************************************************)
(* C38: after any sequence of push, pop, drain, cleanup_stale and          *)
(* adjust_capacity on a CircularBuffer of any capacity, total_packets is   *)
(* len() plus dropped_packets plus the number of packets pop and drain     *)
(* handed out: every pushed packet is resident, dropped or released, and   *)
(* only one of the three.                                                  *)
(***************************************************************************)
PushedPacketsAccounted ==
    cb.total_packets = CircularBuffer_len(cb) + cb.dropped_packets + cbHanded

(***************************************************************************)
(* C39: after any sequence of routing calls the packet_loss_rate of every  *)
(* channel is a rate between 0 and 1 inclusive, whatever the number of     *)
(* recipients of a packet; it is never negative.                           *)
(***************************************************************************)
LossRateIsARate ==
    \A c \in DOMAIN stats :
        /\ stats[c].loss_den > 0
        /\ stats[c].loss_num >= 0
        /\ stats[c].loss_num <= stats[c].loss_den

(***************************************************************************)
(* SpecMembership: the user directory and the channel memberships driven   *)
(* through the WebSocket messages JoinChannel and LeaveChannel, the        *)
(* WebSocket disconnect, and the HTTP handlers join_channel, leave_channel *)
(* and disconnect_user.  The default channel exists; c2 does not.  A       *)
(* WebSocket session stays authenticated as its user after the user was    *)
(* removed over HTTP; the HTTP handlers take any user id.                  *)
(***************************************************************************)
MemberRest == <<now, bufVars, cbVars, routerVars, udpVars, srvVars, extVars>>

\* ChannelService::join_channel returns Ok
join_channel_ok(chs, channel_id, user_id) ==
    /\ channel_id \in DOMAIN chs
    /\ can_join(chs[channel_id], user_id)
    /\ add_user_ok(chs[channel_id], user_id)

\* ChannelService::leave_channel returns Ok
leave_channel_ok(chs, channel_id, user_id) ==
    channel_id \in DOMAIN chs /\ contains(chs[channel_id].current_users, user_id)

\* UserService::user_join_channel and user_leave_channel: Err for a user that
\* is not in the directory
user_join_channel(us, cur, user_id, channel_id) ==
    IF get_user_ok(us, user_id) THEN [cur EXCEPT ![user_id] = channel_id] ELSE cur

user_leave_channel(us, cur, user_id) ==
    IF get_user_ok(us, user_id) THEN [cur EXCEPT ![user_id] = NoChannel] ELSE cur

\* UserService::remove_user: the User value goes with its current_channel
remove_user(us, user_id) ==
    IF get_user_ok(us, user_id) THEN [us EXCEPT ![user_id] = "gone"] ELSE us

InitMembership ==
    /\ now = 0
    /\ ab = AudioBuffer_new(0, 0)
    /\ GhostInit
    /\ CbIdle
    /\ RouterIdle
    /\ users = [u \in Users |-> "new"]
    /\ channels = [c \in {DefaultChannel} |-> NewChannel]
    /\ current_channel = [u \in Users |-> NoChannel]
    /\ UdpIdle
    /\ SrvIdle
    /\ ExtIdle

\* ApiHandlers::create_user; Authenticate over the WebSocket
MbCreateUser ==
    \E u \in Users :
        /\ users[u] = "new"
        /\ users' = [users EXCEPT ![u] = "live"]
        /\ UNCHANGED <<channels, current_channel, MemberRest>>

\* ClientMessage::JoinChannel of a session authenticated as u: `?` returns
\* at the first Err
MbWsJoinChannel ==
    \E u \in Users, c \in Channels :
        /\ users[u] # "new"
        /\ channels' = join_channel(channels, c, u)
        /\ current_channel' = IF join_channel_ok(channels, c, u)
                              THEN user_join_channel(users, current_channel, u, c)
                              ELSE current_channel
        /\ UNCHANGED <<users, MemberRest>>

\* ClientMessage::LeaveChannel of a session authenticated as u
MbWsLeaveChannel ==
    \E u \in Users, c \in Channels :
        /\ users[u] # "new"
        /\ channels' = leave_channel(channels, c, u)
        /\ current_channel' = IF leave_channel_ok(channels, c, u)
                              THEN user_leave_channel(users, current_channel, u)
                              ELSE current_channel
        /\ UNCHANGED <<users, MemberRest>>

\* WebSocketHandler::handle_user_disconnect of a session authenticated as u
MbWsDisconnect ==
    \E u \in Users :
        /\ users[u] # "new"
        /\ channels' = remove_user_from_all_channels(channels, u)
        /\ users' = remove_user(users, u)
        /\ current_channel' = [current_channel EXCEPT ![u] = NoChannel]
        /\ UNCHANGED MemberRest

\* ApiHandlers::join_channel: ChannelService::join_channel and nothing else
MbHttpJoinChannel ==
    \E u \in Users, c \in Channels :
        /\ channels' = join_channel(channels, c, u)
        /\ UNCHANGED <<users, current_channel, MemberRest>>

\* ApiHandlers::leave_channel: ChannelService::leave_channel and nothing else
MbHttpLeaveChannel ==
    \E u \in Users, c \in Channels :
        /\ channels' = leave_channel(channels, c, u)
        /\ UNCHANGED <<users, current_channel, MemberRest>>

\* ApiHandlers::disconnect_user: user_leave_channel, then remove_user
MbHttpDisconnectUser ==
    \E u \in Users :
        /\ users' = remove_user(users, u)
        /\ current_channel' = user_leave_channel(users, current_channel, u)
        /\ UNCHANGED <<channels, MemberRest>>

NextMembership ==
    \/ MbCreateUser
    \/ MbWsJoinChannel
    \/ MbWsLeaveChannel
    \/ MbWsDisconnect
    \/ MbHttpJoinChannel
    \/ MbHttpLeaveChannel
    \/ MbHttpDisconnectUser

SpecMembership == InitMembership /\ [][NextMembership]_vars

(***************************************************************************)
(* C40: after any sequence of join, leave and disconnect operations        *)
(* through the WebSocket and HTTP handlers, user u is listed in the        *)
(* current_users of channel c if and only if u exists in the user service  *)
(* with current_channel == Some(c).                                        *)
(***************************************************************************)
MembershipAgreesWithDirectory ==
    \A u \in Users, c \in DOMAIN channels :
        contains(channels[c].current_users, u)
            <=> (get_user_ok(users, u) /\ current_channel[u] = c)

====
